---- MODULE Spec2Model ----
(***************************************************************************)
(* Model of the chunking and content-normalization pipeline:               *)
(*   src/src/core/scraper.py        chunk_markdown, the blog extraction    *)
(*                                  loop, validate_and_format_items        *)
(*   src/src/core/pdf_processor.py  chunk_pdf_content,                     *)
(*                                  clean_and_deduplicate_chapters,        *)
(*                                  extract_chapters_with_gemini           *)
(* A Python str is a sequence of one-character strings; a Python offset    *)
(* is 0-based, a position of a sequence here is 1-based.                   *)
(***************************************************************************)
EXTENDS Integers, Sequences, FiniteSets, TLC

VARIABLES
    pc,             \* position of the running entry point
    chapters,       \* clean_and_deduplicate_chapters: the argument
    deduplicated,   \* clean_and_deduplicate_chapters: the outcome
    markdown,       \* chunk_markdown: the text
    max_size,       \* chunk_markdown, chunk_pdf_content: the parameter
    overlap,        \* chunk_markdown, chunk_pdf_content: the parameter
    start,          \* chunk_markdown: the local start
    chunks,         \* chunk_markdown, chunk_pdf_content: the list built
    cuts,           \* chunk_markdown: the <<start, end>> of each slice taken
    text,           \* chunk_pdf_content: the text
    page_info,      \* chunk_pdf_content: the page list
    pages,          \* chunk_pdf_content: text.split("--- Page ")
    page_i,         \* chunk_pdf_content: the local i, the pieces enumerated so far
    current_chunk,  \* chunk_pdf_content: the accumulator
    current_pages,  \* chunk_pdf_content: the page numbers of the accumulator
    chunk_index,    \* chunk_pdf_content: the index of the chunk being built
    environ,        \* os.environ: the two credential variables
    pdf_chunks,     \* extract_chapters_with_gemini: the argument
    pdf_filename,   \* extract_chapters_with_gemini: the argument
    chunk_i,        \* extract_chapters_with_gemini: the chunks the loop has taken
    extracted_items,    \* extract_chapters_with_gemini: the raw record list
    total_token_usage,  \* extract_chapters_with_gemini: the accumulator
    slept,          \* the time.sleep(0.5) calls made
    calls,          \* the external calls made, each with what the loop did of it
    cleaned_items,  \* extract_chapters_with_gemini: the list returned
    blog_item,      \* fetch_individual_blog_content: the argument
    blog_url,       \* extract_blog_list_with_gemini, extract_blog_content_with_gemini: the url
    markdown_chunks,    \* extract_blog_content_with_gemini: the argument
    extracted_parts,    \* extract_blog_content_with_gemini: the parts kept
    raw_items,      \* validate_and_format_items: the argument
    returned,       \* the tuple a function of scraper.py returned
    jina_response,  \* what requests.get did in get_markdown_from_jina
    stage,          \* st.session_state.stage
    blog_items,     \* st.session_state.blog_items
    processing_complete,    \* st.session_state.processing_complete
    processing_mode,        \* st.session_state.processing_mode
    produced_by     \* history: the kind of job that assigned blog_items

normVars  == <<chapters, deduplicated>>
chunkVars == <<max_size, overlap, chunks>>
mdVars    == <<markdown, start, cuts>>
pdfVars   == <<text, page_info, pages, page_i, current_chunk, current_pages, chunk_index>>
extractVars == <<environ, pdf_chunks, pdf_filename, chunk_i, extracted_items,
                 total_token_usage, slept, calls, cleaned_items>>
blogVars == <<blog_item, blog_url, markdown_chunks, extracted_parts, raw_items, returned,
              jina_response>>
uiVars == <<stage, blog_items, processing_complete, processing_mode, produced_by>>
vars == <<pc, normVars, chunkVars, mdVars, pdfVars, extractVars, blogVars, uiVars>>

\* the variables of the entry points that are not running
IdleNorm == chapters = <<>> /\ deduplicated = <<>>
IdleMd   == markdown = <<>> /\ start = 0 /\ cuts = <<>>
IdlePdf  == /\ text = <<>> /\ page_info = <<>> /\ pages = <<>> /\ page_i = 0
            /\ current_chunk = <<>> /\ current_pages = <<>> /\ chunk_index = 0
IdleExtract ==
    /\ environ = <<>> /\ pdf_chunks = <<>> /\ pdf_filename = <<>> /\ chunk_i = 0
    /\ extracted_items = <<>> /\ total_token_usage = <<>> /\ slept = 0
    /\ calls = <<>> /\ cleaned_items = <<>>
IdleBlog ==
    /\ blog_item = <<>> /\ blog_url = <<>> /\ markdown_chunks = <<>>
    /\ extracted_parts = <<>> /\ raw_items = <<>> /\ returned = <<>>
    /\ jina_response = <<>>
IdleUi ==
    /\ stage = "" /\ blog_items = <<>> /\ processing_complete = FALSE
    /\ processing_mode = "" /\ produced_by = ""

(***************************************************************************)
(* Characters and the str methods the code uses.                           *)
(***************************************************************************)
UpperSeq == <<"A","B","C","D","E","F","G","H","I","J","K","L","M",
              "N","O","P","Q","R","S","T","U","V","W","X","Y","Z">>
LowerSeq == <<"a","b","c","d","e","f","g","h","i","j","k","l","m",
              "n","o","p","q","r","s","t","u","v","w","x","y","z">>
Upper == {UpperSeq[i] : i \in 1..26}
Lower == {LowerSeq[i] : i \in 1..26}
Digit == {"0","1","2","3","4","5","6","7","8","9"}
\* \s of re and the characters str.strip() removes
Space == {" ", "\n", "\r", "\t"}
\* \w of re
WordChar == Upper \cup Lower \cup Digit \cup {"_"}

LetterIndex(c, letters) == CHOOSE i \in 1..26 : letters[i] = c
ToLower(c) == IF c \in Upper THEN LowerSeq[LetterIndex(c, UpperSeq)] ELSE c
ToUpper(c) == IF c \in Lower THEN UpperSeq[LetterIndex(c, LowerSeq)] ELSE c

Min(a, b) == IF a < b THEN a ELSE b
Max(a, b) == IF a > b THEN a ELSE b

\* s.lower()
StrLower(s) == [i \in 1..Len(s) |-> ToLower(s[i])]

\* s.strip()
StrStrip(s) ==
    LET keep == {i \in 1..Len(s) : s[i] \notin Space}
    IN  IF keep = {} THEN <<>>
        ELSE SubSeq(s, CHOOSE i \in keep : \A j \in keep : i <= j,
                       CHOOSE i \in keep : \A j \in keep : i >= j)

\* s.isupper(): at least one cased character and no lowercase one
StrIsUpper(s) ==
    /\ \E i \in 1..Len(s) : s[i] \in Upper
    /\ \A i \in 1..Len(s) : s[i] \notin Lower

\* s.title(): a letter that follows a letter is lowercased, any other
\* letter is uppercased
StrTitle(s) ==
    [i \in 1..Len(s) |->
        IF i > 1 /\ s[i-1] \in (Upper \cup Lower)
        THEN ToLower(s[i]) ELSE ToUpper(s[i])]

\* s.startswith(p)
StartsWith(s, p) == Len(s) >= Len(p) /\ SubSeq(s, 1, Len(p)) = p

\* s[:n] for n >= 0
Prefix(s, n) == SubSeq(s, 1, Min(n, Len(s)))

\* s[n:] for n >= 0, n counted in characters dropped
DropFirst(s, n) == SubSeq(s, n + 1, Len(s))

\* p in s
Contains(s, p) ==
    \E i \in 0..(Len(s) - Len(p)) : SubSeq(s, i + 1, i + Len(p)) = p

\* the number of leading characters of s, from position p on, that lie in cls
RECURSIVE RunLen(_, _, _)
RunLen(s, p, cls) ==
    IF p <= Len(s) /\ s[p] \in cls THEN 1 + RunLen(s, p + 1, cls) ELSE 0

(***************************************************************************)
(* Python values. A value read from JSON is tagged with its type; a dict   *)
(* is a function from its keys (strings) to values.                        *)
(***************************************************************************)
PyStr(s)  == [t |-> "str",  v |-> s]
PyNum(n)  == [t |-> "num",  v |-> n]
PyBool(b) == [t |-> "bool", v |-> b]
PyNone    == [t |-> "null", v |-> 0]
PyList(l) == [t |-> "list", v |-> l]
PyDict(d) == [t |-> "dict", v |-> d]

IsStr(x) == x.t = "str"

\* bool(x)
Truthy(x) ==
    CASE x.t = "str"  -> x.v # <<>>
      [] x.t = "num"  -> x.v # 0
      [] x.t = "bool" -> x.v
      [] x.t = "null" -> FALSE
      [] x.t = "list" -> x.v # <<>>
      [] x.t = "dict" -> DOMAIN x.v # {}

\* d.get(k, default)
Get(d, k, default) == IF k \in DOMAIN d THEN d[k] ELSE default

\* d[k] = x
Put(d, k, x) == [j \in DOMAIN d \cup {k} |-> IF j = k THEN x ELSE d[j]]

\* d.setdefault(k, x)
SetDefault(d, k, x) == IF k \in DOMAIN d THEN d ELSE Put(d, k, x)

K_title        == <<"t","i","t","l","e">>
K_content      == <<"c","o","n","t","e","n","t">>
K_content_type == <<"c","o","n","t","e","n","t","_","t","y","p","e">>
K_source_url   == <<"s","o","u","r","c","e","_","u","r","l">>
K_author       == <<"a","u","t","h","o","r">>
K_user_id      == <<"u","s","e","r","_","i","d">>
K_page_range   == <<"p","a","g","e","_","r","a","n","g","e">>
K_chapter      == <<"c","h","a","p","t","e","r">>

(***************************************************************************)
(* The regular expressions of the title heuristics, matched as re matches  *)
(* them: leftmost start, greedy prefix, lazy title group.                  *)
(***************************************************************************)
W_CHAPTER == <<"C","H","A","P","T","E","R">>
W_chapter == <<"c","h","a","p","t","e","r">>

\* (?:\n|\r|$) and its variants: the character at p is one of tc, or
\* (atEnd) p is the end of the string
Term(s, p, tc, atEnd) ==
    \/ p <= Len(s) /\ s[p] \in tc
    \/ atEnd /\ p = Len(s) + 1

\* CHAPTER\s+\d+[:\.]?\s* at position i (word: CHAPTER, or chapter in any
\* case when fold): the position after it, 0 when it does not match
ChapterPrefixEnd(s, i, fold) ==
    LET a  == i + 7
        ws == RunLen(s, a, Space)
        b  == a + ws
        ds == RunLen(s, b, Digit)
        c  == b + ds
        d  == IF c <= Len(s) /\ s[c] \in {":", "."} THEN c + 1 ELSE c
    IN  IF /\ i + 6 <= Len(s)
           /\ IF fold THEN StrLower(SubSeq(s, i, i + 6)) = W_chapter
                      ELSE SubSeq(s, i, i + 6) = W_CHAPTER
           /\ ws >= 1
           /\ ds >= 1
        THEN d + RunLen(s, d, Space)
        ELSE 0

\* [A-Z][A-Z\s]{lo,hi}? followed by the terminator, the group starting at
\* g: the position after the group, 0 when it does not match
GroupEnd(s, g, lo, hi, tc, atEnd) ==
    IF g > Len(s) \/ s[g] \notin Upper THEN 0
    ELSE LET m  == RunLen(s, g + 1, Upper \cup Space)
             ok == {n \in lo..Min(hi, m) : Term(s, g + n + 1, tc, atEnd)}
         IN  IF ok = {} THEN 0
             ELSE g + 1 + (CHOOSE n \in ok : \A k \in ok : n <= k)

\* (?:CHAPTER\s+\d+[:\.]?\s*)?([A-Z][A-Z\s]{lo,hi}?)term at i: <<start, end>>
\* of group 1 (end exclusive), <<0, 0>> when it does not match
MatchChapterAt(s, i, lo, hi, tc, atEnd) ==
    LET pe    == ChapterPrefixEnd(s, i, FALSE)
        withP == IF pe > 0 THEN GroupEnd(s, pe, lo, hi, tc, atEnd) ELSE 0
        noP   == GroupEnd(s, i, lo, hi, tc, atEnd)
    IN  IF withP > 0 THEN <<pe, withP>>
        ELSE IF noP > 0 THEN <<i, noP>>
        ELSE <<0, 0>>

\* (\d+\.\s*[A-Z][A-Z\s]{lo,hi}?)term at i
MatchNumberedAt(s, i, lo, hi, tc, atEnd) ==
    LET ds == RunLen(s, i, Digit)
        a  == i + ds
        g  == a + 1 + RunLen(s, a + 1, Space)
        e  == GroupEnd(s, g, lo, hi, tc, atEnd)
    IN  IF ds >= 1 /\ a <= Len(s) /\ s[a] = "." /\ e > 0
        THEN <<i, e>> ELSE <<0, 0>>

\* ^([A-Z][A-Z\s]{lo,hi}?)term: only at the start of the string
MatchAnchoredAt(s, i, lo, hi, tc, atEnd) ==
    LET e == GroupEnd(s, 1, lo, hi, tc, atEnd)
    IN  IF i = 1 /\ e > 0 THEN <<1, e>> ELSE <<0, 0>>

\* the end of (?:\s+[A-Z][a-z]*){n,} followed by the terminator, the groups
\* taken greedily from position e on with k of them already taken: the
\* position after the last group, 0 when it does not match
RECURSIVE WordsEnd(_, _, _, _, _)
WordsEnd(s, e, k, n, tc) ==
    LET u == e + RunLen(s, e, Space)
        Taken(e2, longer) ==
            IF longer > 0 THEN longer
            ELSE IF k + 1 >= n /\ Term(s, e2, tc, FALSE) THEN e2
            ELSE 0
        Word(e2) == Taken(e2, WordsEnd(s, e2, k + 1, n, tc))
    IN  IF u > e /\ u <= Len(s) /\ s[u] \in Upper
        THEN Word(u + 1 + RunLen(s, u + 1, Lower))
        ELSE 0

\* ([A-Z][a-z]+(?:\s+[A-Z][a-z]*){2,})term at i
MatchWordsAt(s, i, tc) ==
    LET Words(e) == IF e > 0 THEN <<i, e>> ELSE <<0, 0>>
    IN  IF s[i] \in Upper /\ RunLen(s, i + 1, Lower) >= 1
        THEN Words(WordsEnd(s, i + 1 + RunLen(s, i + 1, Lower), 0, 2, tc))
        ELSE <<0, 0>>

\* re.search: the match at the least start position; group 1 as a string,
\* or the marker NoMatch
NoMatch == <<"no match">>
SearchGroup(s, kind, lo, hi, tc, atEnd) ==
    LET At(i) == CASE kind = "chapter"  -> MatchChapterAt(s, i, lo, hi, tc, atEnd)
                   [] kind = "numbered" -> MatchNumberedAt(s, i, lo, hi, tc, atEnd)
                   [] kind = "anchored" -> MatchAnchoredAt(s, i, lo, hi, tc, atEnd)
                   [] kind = "words"    -> MatchWordsAt(s, i, tc)
        hits  == {i \in 1..Len(s) : At(i)[1] > 0}
        first == CHOOSE i \in hits : \A j \in hits : i <= j
    IN  IF hits = {} THEN NoMatch
        ELSE SubSeq(s, At(first)[1], At(first)[2] - 1)

\* re.sub(r'^\d+\.\s*', '', s)
StripLeadingNumber(s) ==
    LET ds == RunLen(s, 1, Digit)
    IN  IF ds >= 1 /\ ds + 1 <= Len(s) /\ s[ds + 1] = "."
        THEN DropFirst(s, ds + 1 + RunLen(s, ds + 2, Space))
        ELSE s

\* re.sub(r'^(Chapter\s+\d+[:\.]?\s*)', '', s, flags=re.IGNORECASE)
StripChapterPrefix(s) ==
    LET e == ChapterPrefixEnd(s, 1, TRUE)
    IN  IF e > 0 THEN DropFirst(s, e - 1) ELSE s

(***************************************************************************)
(* clean_and_deduplicate_chapters (pdf_processor.py)                       *)
(***************************************************************************)
W_PDF_Content       == <<"P","D","F"," ","C","o","n","t","e","n","t">>
W_PDF_Content_Pages == W_PDF_Content \o <<" ","-"," ","P","a","g","e","s">>
W_Blank             == <<"\n","\n">>

\* re.sub(r'[^\w\s]', '', s)
RemovePunctuation(s) == SelectSeq(s, LAMBDA c : c \in WordChar \cup Space)

\* re.sub(r'\s+', ' ', s)
RECURSIVE CollapseSpace(_)
CollapseSpace(s) ==
    IF s = <<>> THEN <<>>
    ELSE IF s[1] \in Space
         THEN <<" ">> \o CollapseSpace(DropFirst(s, RunLen(s, 1, Space)))
         ELSE <<s[1]>> \o CollapseSpace(Tail(s))

\* the grouping key of a title (lines 196-198)
NormalizedTitle(title) ==
    CollapseSpace(RemovePunctuation(StrStrip(StrLower(title))))

\* the three chapter_patterns, in order (lines 177-181)
ChapterPatterns ==
    << [kind |-> "chapter",  lo |-> 1],
       [kind |-> "numbered", lo |-> 1],
       [kind |-> "anchored", lo |-> 10] >>

\* one pattern tried on the content (lines 184-189): the cleaned title, or
\* NoMatch
ExtractedTitle(content, pat) ==
    LET Cleaned(g) == IF g = NoMatch THEN NoMatch
                      ELSE StrTitle(StripLeadingNumber(StrStrip(g)))
    IN  Cleaned(SearchGroup(content, pat.kind, pat.lo, Len(content),
                            {"\n", "\r"}, TRUE))

\* the loop over chapter_patterns (lines 183-193) from pattern k on: the
\* first extracted title longer than 5 characters, or NoMatch
RECURSIVE BetterTitleFrom(_, _)
BetterTitleFrom(content, k) ==
    IF k > Len(ChapterPatterns) THEN NoMatch
    ELSE LET Tried(e) == IF e # NoMatch /\ Len(e) > 5 THEN e
                         ELSE BetterTitleFrom(content, k + 1)
         IN  Tried(ExtractedTitle(content, ChapterPatterns[k]))

BetterTitle(content) == BetterTitleFrom(content, 1)

\* str(x) of an f-string, for the types a page range takes
RECURSIVE Decimal(_)
Decimal(n) ==
    LET d == <<"0","1","2","3","4","5","6","7","8","9">>
    IN  IF n < 10 THEN <<d[n + 1]>> ELSE Decimal(n \div 10) \o <<d[(n % 10) + 1]>>
Format(x) ==
    CASE x.t = "str" -> x.v
      [] x.t = "num" -> Decimal(x.v)

\* existing['content'] += '\n\n' + chapter.get('content', '') (line 204):
\* the outcome [raised, value]
AddContent(existing, chapter) ==
    LET new == Get(chapter, K_content, PyStr(<<>>))
        old == IF K_content \in DOMAIN existing THEN existing[K_content] ELSE PyNone
    IN  IF ~IsStr(new) \/ K_content \notin DOMAIN existing
        THEN [raised |-> TRUE, value |-> PyNone]
        ELSE IF old.t = "str"
        THEN [raised |-> FALSE, value |-> PyStr(old.v \o W_Blank \o new.v)]
        ELSE IF old.t = "list"
        THEN [raised |-> FALSE,
              value  |-> PyList(old.v \o [i \in 1..(2 + Len(new.v)) |->
                                             PyStr(<<(W_Blank \o new.v)[i]>>)])]
        ELSE [raised |-> TRUE, value |-> PyNone]

\* the page range update (lines 207-210)
MergePageRange(existing, chapter) ==
    LET existing_range == Get(existing, K_page_range, PyStr(<<>>))
        new_range      == Get(chapter, K_page_range, PyStr(<<>>))
    IN  IF Truthy(existing_range) /\ Truthy(new_range)
           /\ existing_range # new_range
        THEN Put(existing, K_page_range,
                 PyStr(Format(existing_range) \o <<",", " ">> \o Format(new_range)))
        ELSE existing

\* grouped_chapters is a dict in insertion order: a sequence of
\* [key, chapter]. The position of key k in it, 0 when absent.
GroupIndex(grouped, k) ==
    IF \E i \in 1..Len(grouped) : grouped[i].key = k
    THEN CHOOSE i \in 1..Len(grouped) : grouped[i].key = k
    ELSE 0

\* the chapter, its title settled, put into grouped_chapters under its key
\* (lines 200-212): [raised, grouped]
GroupTitled(grouped, chap, key) ==
    LET at == GroupIndex(grouped, key)
        Merged(added) ==
            IF added.raised THEN [raised |-> TRUE, grouped |-> grouped]
            ELSE [raised  |-> FALSE,
                  grouped |-> [grouped EXCEPT ![at].chapter =
                                  MergePageRange(
                                      Put(grouped[at].chapter, K_content, added.value),
                                      chap)]]
    IN  IF at = 0
        THEN [raised  |-> FALSE,
              grouped |-> Append(grouped, [key |-> key, chapter |-> chap])]
        ELSE Merged(AddContent(grouped[at].chapter, chap))

\* the body of the grouping loop for one chapter (lines 169-212):
\* [raised, grouped]
GroupChapter(grouped, chapter) ==
    LET t0       == Get(chapter, K_title, PyStr(<<>>))
        c0       == Get(chapter, K_content, PyStr(<<>>))
        Titled(stripped, better) ==
            IF better # NoMatch
            THEN GroupTitled(grouped, Put(chapter, K_title, PyStr(better)),
                             NormalizedTitle(better))
            ELSE GroupTitled(grouped, chapter, NormalizedTitle(stripped))
        Stripped(stripped) ==
            IF ~StartsWith(stripped, W_PDF_Content_Pages)
            THEN Titled(stripped, NoMatch)
            ELSE IF ~IsStr(c0) THEN [raised |-> TRUE, grouped |-> grouped]
            ELSE Titled(stripped, BetterTitle(Prefix(c0.v, 500)))
    IN  IF ~IsStr(t0) THEN [raised |-> TRUE, grouped |-> grouped]
        ELSE Stripped(StrStrip(t0.v))

\* the grouping loop (lines 168-212) from chapter i on
RECURSIVE GroupFrom(_, _, _)
GroupFrom(chaps, i, grouped) ==
    LET Continue(r) == IF r.raised THEN r ELSE GroupFrom(chaps, i + 1, r.grouped)
    IN  IF i > Len(chaps) THEN [raised |-> FALSE, grouped |-> grouped]
        ELSE Continue(GroupChapter(grouped, chaps[i]))

\* the final title cleanup of one chapter (lines 219-229)
CleanTitle(chapter) ==
    LET t0 == Get(chapter, K_title, PyStr(<<>>)).v
        t1 == IF StrIsUpper(t0) THEN StrTitle(t0) ELSE t0
    IN  Put(chapter, K_title,
            PyStr(StrStrip(StripLeadingNumber(StripChapterPrefix(t1)))))

\* clean_and_deduplicate_chapters(chapters): [raised, value]; raised when
\* the call ends in an exception
clean_and_deduplicate_chapters(chaps) ==
    LET Cleaned(g) ==
            IF g.raised THEN [raised |-> TRUE, value |-> <<>>]
            ELSE [raised |-> FALSE,
                  value  |-> [i \in 1..Len(g.grouped) |-> CleanTitle(g.grouped[i].chapter)]]
    IN  IF chaps = <<>> THEN [raised |-> FALSE, value |-> chaps]
        ELSE Cleaned(GroupFrom(chaps, 1, <<>>))

(***************************************************************************)
(* The Normalizer run on its own: an input list is drawn and               *)
(* clean_and_deduplicate_chapters is applied to it.                        *)
(***************************************************************************)
MaxChapters == 2

T_Intro         == <<"I","n","t","r","o">>
T_INTRO         == <<"I","N","T","R","O">>
T_IntroBang     == <<"I","n","t","r","o"," ","!">>
T_Chapter1Intro == <<"C","h","a","p","t","e","r"," ","1",":"," ","I","n","t","r","o">>
T_1Intro        == <<"1","."," ","I","n","t","r","o">>
T_THE_HISTORY   == <<"T","H","E"," ","H","I","S","T","O","R","Y">>
T_the_history   == <<"t","h","e"," "," "," ","h","i","s","t","o","r","y","!">>
T_Generic       == <<"P","D","F"," ","C","o","n","t","e","n","t"," ","-"," ",
                     "P","a","g","e","s"," ","1","-","2">>
B_Plain         == <<"p","l","a","i","n"," ","t","e","x","t">>
B_Heading       == <<"T","H","E"," ","H","I","S","T","O","R","Y","\n","f","o","o">>
\* a heading longer than the 60 characters a recovered title may have
LongHeadingLen  == 61
B_LongHeading   == [k \in 1..LongHeadingLen |-> "A"] \o <<"\n","f","o","o">>
R_1_2           == <<"1","-","2">>
R_3             == <<"3">>

ChapterTitles   == {T_Intro, T_INTRO, T_IntroBang, T_Chapter1Intro, T_1Intro,
                    T_THE_HISTORY, T_the_history, T_Generic}
ChapterContents == {B_Plain, B_Heading, B_LongHeading}
ChapterRanges   == {R_1_2, R_3}

Chapter(title, content, page_range) ==
    (K_title :> PyStr(title)) @@ (K_content :> PyStr(content))
        @@ (K_page_range :> PyStr(page_range))

ChapterPool ==
    {Chapter(t, c, r) : t \in ChapterTitles, c \in ChapterContents, r \in ChapterRanges}

ChapterLists == UNION {[1..n -> ChapterPool] : n \in 0..MaxChapters}

InitNorm ==
    /\ pc = "norm"
    /\ chapters \in ChapterLists
    /\ deduplicated = <<>>
    /\ max_size = 0 /\ overlap = 0 /\ chunks = <<>>
    /\ IdleMd /\ IdlePdf /\ IdleExtract /\ IdleBlog /\ IdleUi

\* the call clean_and_deduplicate_chapters(chapters)
Normalize ==
    /\ pc = "norm"
    /\ LET r == clean_and_deduplicate_chapters(chapters)
       IN  /\ deduplicated' = r.value
           /\ pc' = IF r.raised THEN "norm_raised" ELSE "norm_returned"
    /\ UNCHANGED <<chapters, chunkVars, mdVars, pdfVars, extractVars, blogVars, uiVars>>

NextNorm == Normalize

SpecNorm == InitNorm /\ [][NextNorm]_vars

TitleOf(chapter) == chapter[K_title].v

\* the normalized title as the specification words it: lowercased,
\* punctuation stripped, whitespace runs collapsed, trimmed
SpecKey(title) ==
    StrStrip(CollapseSpace(RemovePunctuation(StrLower(title))))

\* C1: no two records returned by the Normalizer share the same normalized
\* title, the title taken as it is emitted
C1_UniqueNormalizedTitles ==
    pc = "norm_returned" =>
        \A i, j \in 1..Len(deduplicated) :
            i # j => SpecKey(TitleOf(deduplicated[i])) # SpecKey(TitleOf(deduplicated[j]))

(***************************************************************************)
(* chunk_markdown (scraper.py)                                             *)
(***************************************************************************)
\* a slice bound as Python reads it: negative counts from the end, and
\* the bound is clipped to 0..len
Bound(n, len) == IF n < 0 THEN Max(n + len, 0) ELSE Min(n, len)

\* s[a:b]
Slice(s, a, b) == SubSeq(s, Bound(a, Len(s)) + 1, Bound(b, Len(s)))

\* s.rfind(sub, a, b): the highest offset in [a, b - len(sub)] at which sub
\* occurs, -1 when there is none
RFind_First(s, sub, a, b) ==
    LET lo   == Bound(a, Len(s))
        hi   == Bound(b, Len(s)) - Len(sub)
        hits == {k \in lo..hi : SubSeq(s, k + 1, k + Len(sub)) = sub}
    IN  IF hits = {} THEN -1 ELSE CHOOSE k \in hits : \A j \in hits : k <= j
RFind(s, sub, a, b) ==
    LET lo   == Bound(a, Len(s))
        hi   == Bound(b, Len(s)) - Len(sub)
        hits == {k \in lo..hi : SubSeq(s, k + 1, k + Len(sub)) = sub}
    IN  IF hits = {} THEN -1 ELSE CHOOSE k \in hits : \A j \in hits : k >= j

\* the end of the chunk that starts at st (lines 66-71)
ChunkEnd_Midpoint(md, st, size) ==
    LET end         == st + size
        break_point == RFind(md, W_Blank, st, end)
    IN  IF end < Len(md) /\ break_point > st + (size \div 2)
        THEN break_point ELSE st + (size \div 2) + 1
ChunkEnd(md, st, size) ==
    LET end         == st + size
        break_point == RFind(md, W_Blank, st, end)
    IN  IF end < Len(md) /\ break_point > st + (size \div 2)
        THEN break_point ELSE end

\* The text and the chunks of chunk_markdown are kept run-length encoded
\* in the state, a string being the sequence of its runs [c, n] (the
\* character c, n times); the operations read the characters.
RECURSIVE PackFrom(_, _, _)
PackFrom(s, bounds, k) ==
    LET later == {j \in bounds : j > k}
        next  == IF later = {} THEN Len(s) + 1
                 ELSE CHOOSE j \in later : \A m \in later : j <= m
    IN  <<[c |-> s[k], n |-> next - k]>>
        \o (IF later = {} THEN <<>> ELSE PackFrom(s, bounds, next))

Pack(s) ==
    IF s = <<>> THEN <<>>
    ELSE PackFrom(s, {k \in 1..Len(s) : k = 1 \/ s[k] # s[k - 1]}, 1)

RECURSIVE Unpack(_)
Unpack(runs) ==
    IF runs = <<>> THEN <<>>
    ELSE Unpack(SubSeq(runs, 1, Len(runs) - 1))
         \o [k \in 1..runs[Len(runs)].n |-> runs[Len(runs)].c]

\* the start of the next chunk (line 79)
NextStart_Plus(end, ov) == end + ov
NextStart(end, ov) == end - ov

\* lines 59-63: a text that fits is returned as the only chunk
MdEnter ==
    /\ pc = "md"
    /\ IF Len(Unpack(markdown)) <= max_size
       THEN /\ chunks' = <<markdown>>
            /\ cuts' = <<>>
            /\ pc' = "md_returned"
       ELSE /\ chunks' = <<>>
            /\ cuts' = <<>>
            /\ pc' = "md_loop"
    /\ start' = 0
    /\ UNCHANGED <<markdown, max_size, overlap, normVars, pdfVars, extractVars, blogVars, uiVars>>

\* one evaluation of the while condition and, when it holds, of the loop
\* body (lines 65-79)
MdIterate ==
    /\ pc = "md_loop"
    /\ LET md == Unpack(markdown)
       IN  IF start < Len(md)
           THEN LET end == ChunkEnd(md, start, max_size)
                IN  /\ chunks' = Append(chunks, Pack(Slice(md, start, end)))
                    /\ cuts' = Append(cuts, <<start, end>>)
                    /\ IF end >= Len(md)
                       THEN pc' = "md_returned" /\ start' = start
                       ELSE pc' = "md_loop" /\ start' = NextStart(end, overlap)
           ELSE /\ pc' = "md_returned"
                /\ UNCHANGED <<chunks, cuts, start>>
    /\ UNCHANGED <<markdown, max_size, overlap, normVars, pdfVars, extractVars, blogVars, uiVars>>

NextMd == MdEnter \/ MdIterate

\* the texts drawn: every string over MdAlphabet of at most MaxMdLen
\* characters; the parameters drawn keep the proportion of the defaults
\* (20000, 1000): the overlap is at most half of max_size
MaxMdLen   == 6
MdAlphabet == {"a", " ", "\n"}
MdTexts    == UNION {[1..n -> MdAlphabet] : n \in 0..MaxMdLen}
MdParams   == {<<2, 0>>, <<2, 1>>, <<3, 1>>, <<4, 1>>, <<4, 2>>}

InitMd ==
    /\ pc = "md"
    /\ \E s \in MdTexts : markdown = Pack(s)
    /\ \E p \in MdParams : max_size = p[1] /\ overlap = p[2]
    /\ start = 0 /\ chunks = <<>> /\ cuts = <<>>
    /\ IdleNorm /\ IdlePdf /\ IdleExtract /\ IdleBlog /\ IdleUi

SpecMd == InitMd /\ [][NextMd]_vars

(***************************************************************************)
(* extract_text_from_pdf and chunk_pdf_content (pdf_processor.py)          *)
(***************************************************************************)
W_PageMarker == <<"-","-","-"," ","P","a","g","e"," ">>
W_Dashes     == <<"-","-","-">>

\* s.find(sub) from position p on: the least position >= p at which sub
\* occurs, 0 when there is none
FindFrom(s, sub, p) ==
    LET hits == {k \in p..(Len(s) - Len(sub) + 1) : SubSeq(s, k, k + Len(sub) - 1) = sub}
    IN  IF hits = {} THEN 0 ELSE CHOOSE k \in hits : \A j \in hits : k <= j

\* s.split(sep)
RECURSIVE Split(_, _)
Split(s, sep) ==
    LET k == FindFrom(s, sep, 1)
    IN  IF k = 0 THEN <<s>>
        ELSE <<SubSeq(s, 1, k - 1)>> \o Split(DropFirst(s, k - 1 + Len(sep)), sep)

\* s.isdigit()
IsDigits(s) == s # <<>> /\ \A k \in 1..Len(s) : s[k] \in Digit

\* int(s) for a string of digits
RECURSIVE ParseInt(_)
ParseInt(s) ==
    IF s = <<>> THEN 0
    ELSE 10 * ParseInt(SubSeq(s, 1, Len(s) - 1))
         + (CHOOSE d \in 0..9 : Decimal(d) = <<s[Len(s)]>>)

\* extract_text_from_pdf (lines 58-70): doc is the text of each page of the
\* document; a page whose text is blank is left out
RECURSIVE FullText(_, _)
FullText(doc, n) ==
    IF n = 0 THEN <<>>
    ELSE FullText(doc, n - 1) \o
         (IF StrStrip(doc[n]) # <<>>
          THEN <<"\n","\n">> \o W_PageMarker \o Decimal(n) \o <<" ","-","-","-","\n","\n">>
               \o doc[n]
          ELSE <<>>)

PageInfo(doc) ==
    LET kept == SelectSeq([n \in 1..Len(doc) |-> n], LAMBDA n : StrStrip(doc[n]) # <<>>)
    IN  [k \in 1..Len(kept) |->
            [page_number |-> kept[k], text |-> doc[kept[k]], char_count |-> Len(doc[kept[k]])]]

\* min(l), max(l) of a non-empty list of numbers
ListMin(l) == CHOOSE x \in {l[k] : k \in 1..Len(l)} : \A k \in 1..Len(l) : x <= l[k]
ListMax(l) == CHOOSE x \in {l[k] : k \in 1..Len(l)} : \A k \in 1..Len(l) : x >= l[k]

\* the range label of the pages gathered (lines 105-110 and 144-149)
PageRange(cur_pages) ==
    IF cur_pages = <<>> THEN <<"u","n","k","n","o","w","n">>
    ELSE IF Len(cur_pages) > 1
         THEN Decimal(ListMin(cur_pages)) \o <<"-">> \o Decimal(ListMax(cur_pages))
         ELSE Decimal(cur_pages[1])

\* the page number read from a page unit (lines 129-135): 0 when none is
\* recognized
PageNumberOf(page_text) ==
    LET split == Split(page_text, W_PageMarker)
        parts == IF Len(split) > 1 THEN split[2] ELSE <<>>
        page_num_str == StrStrip(Split(parts, W_Dashes)[1])
    IN  IF /\ Contains(page_text, W_PageMarker)
           /\ parts # <<>>
           /\ Contains(parts, W_Dashes)
           /\ IsDigits(page_num_str)
        THEN ParseInt(page_num_str)
        ELSE 0

\* whether lines 129-137 add a page number to current_pages
AddsPage(page_text, cur_pages) ==
    LET split == Split(page_text, W_PageMarker)
        parts == IF Len(split) > 1 THEN split[2] ELSE <<>>
    IN  /\ Contains(page_text, W_PageMarker)
        /\ parts # <<>>
        /\ Contains(parts, W_Dashes)
        /\ IsDigits(StrStrip(Split(parts, W_Dashes)[1]))
        /\ \A k \in 1..Len(cur_pages) : cur_pages[k] # PageNumberOf(page_text)

\* the unit of the loop for the i-th piece of the split, counted from 0
\* (line 101)
PageText(pieces, k) == IF k = 0 THEN pieces[1] ELSE W_PageMarker \o pieces[k + 1]

\* current_chunk[-overlap:] if len(current_chunk) > overlap else
\* current_chunk (line 119)
OverlapText_Whole(cur, ov) == cur
OverlapText(cur, ov) == IF Len(cur) > ov THEN Slice(cur, 0 - ov, Len(cur)) ELSE cur

\* the chunk appended when the accumulator is closed (lines 112-116, 151-155)
ClosedChunk(cur, cur_pages, index) ==
    [content |-> StrStrip(cur), page_range |-> PageRange(cur_pages), chunk_index |-> index]

\* lines 82-95: a text that fits is returned as the only chunk, any other
\* is split at the page markers
PdfEnter ==
    /\ pc = "pdf"
    /\ IF Len(text) <= max_size
       THEN /\ chunks' = << [content     |-> text,
                            page_range  |-> IF page_info # <<>>
                                            THEN <<"1","-">> \o Decimal(Len(page_info))
                                            ELSE <<"1">>,
                            chunk_index |-> 1] >>
            /\ pages' = <<>>
            /\ pc' = "pdf_returned"
       ELSE /\ chunks' = <<>>
            /\ pages' = Split(text, W_PageMarker)
            /\ pc' = "pdf_loop"
    /\ page_i' = 0 /\ current_chunk' = <<>> /\ current_pages' = <<>> /\ chunk_index' = 1
    /\ UNCHANGED <<text, page_info, max_size, overlap, normVars, mdVars, extractVars, blogVars,
                   uiVars>>

\* one iteration of the loop over the pieces (lines 97-140)
PdfPage ==
    /\ pc = "pdf_loop"
    /\ page_i < Len(pages)
    /\ page_i' = page_i + 1
    /\ IF StrStrip(pages[page_i + 1]) = <<>>
       THEN UNCHANGED <<chunks, current_chunk, current_pages, chunk_index>>
       ELSE LET page_text == PageText(pages, page_i)
                closes    == Len(current_chunk \o page_text) > max_size
                             /\ current_chunk # <<>>
                kept      == IF closes
                             THEN IF current_pages # <<>>
                                  THEN <<current_pages[Len(current_pages)]>> ELSE <<>>
                             ELSE current_pages
            IN  /\ chunks' = IF closes
                             THEN Append(chunks, ClosedChunk(current_chunk, current_pages,
                                                             chunk_index))
                             ELSE chunks
                /\ current_chunk' =
                      IF closes
                      THEN OverlapText(current_chunk, overlap) \o W_Blank \o page_text
                      ELSE IF current_chunk # <<>>
                           THEN current_chunk \o W_Blank \o page_text
                           ELSE page_text
                /\ chunk_index' = IF closes THEN chunk_index + 1 ELSE chunk_index
                /\ current_pages' = IF AddsPage(page_text, kept)
                                    THEN Append(kept, PageNumberOf(page_text))
                                    ELSE kept
    /\ pc' = pc
    /\ UNCHANGED <<text, page_info, pages, max_size, overlap, normVars, mdVars, extractVars, blogVars,
                   uiVars>>

\* the end of the loop: the accumulator becomes the last chunk (lines 143-157)
PdfFinish ==
    /\ pc = "pdf_loop"
    /\ page_i = Len(pages)
    /\ chunks' = IF current_chunk # <<>>
                 THEN Append(chunks, ClosedChunk(current_chunk, current_pages, chunk_index))
                 ELSE chunks
    /\ pc' = "pdf_returned"
    /\ UNCHANGED <<text, page_info, pages, page_i, current_chunk, current_pages, chunk_index,
                   max_size, overlap, normVars, mdVars, extractVars, blogVars, uiVars>>

NextPdf == PdfEnter \/ PdfPage \/ PdfFinish

\* the documents drawn: at most MaxPages pages, the text of each drawn from
\* PageTexts (the empty one is a page without text), at least one page with
\* text, as process_pdf_file requires before it chunks (lines 474-481)
MaxPages  == 3
PageTexts == {<<>>, <<"a">>, <<"b","c","d","e","f">>, <<"x","\n">>}
Docs      == {d \in UNION {[1..n -> PageTexts] : n \in 1..MaxPages} :
                 \E n \in 1..Len(d) : StrStrip(d[n]) # <<>>}
PdfParams == {<<18, 2>>, <<21, 3>>, <<45, 5>>, <<100, 10>>}

InitPdf ==
    /\ pc = "pdf"
    /\ \E d \in Docs : text = FullText(d, Len(d)) /\ page_info = PageInfo(d)
    /\ \E p \in PdfParams : max_size = p[1] /\ overlap = p[2]
    /\ pages = <<>> /\ page_i = 0 /\ current_chunk = <<>> /\ current_pages = <<>>
    /\ chunk_index = 0 /\ chunks = <<>>
    /\ IdleNorm /\ IdleMd /\ IdleExtract /\ IdleBlog /\ IdleUi

SpecPdf == InitPdf /\ [][NextPdf]_vars

(***************************************************************************)
(* The Segmenter: either chunker, run on an input drawn for it.            *)
(***************************************************************************)
SpecSeg == (InitMd \/ InitPdf) /\ [][NextMd \/ NextPdf]_vars

\* the contents of the chunks returned, whichever chunker ran
SegmentContents ==
    [k \in 1..Len(chunks) |->
        IF pc = "pdf_returned" THEN chunks[k].content ELSE Unpack(chunks[k])]

MdSplit  == pc = "md_returned" /\ Len(Unpack(markdown)) > max_size
PdfSplit == pc = "pdf_returned" /\ Len(text) > max_size

\* the chunks of chunk_markdown joined, the first overlap characters of
\* every chunk after the first left out
RECURSIVE MdRebuilt(_)
MdRebuilt(k) ==
    IF k = 0 THEN <<>>
    ELSE MdRebuilt(k - 1)
         \o (IF k = 1 THEN Unpack(chunks[k]) ELSE DropFirst(Unpack(chunks[k]), overlap))

\* the page units of the text: the pieces of the split that are not blank
PageUnits ==
    LET pieces == Split(text, W_PageMarker)
        kept   == SelectSeq([k \in 1..Len(pieces) |-> k - 1],
                            LAMBDA k : StrStrip(pieces[k + 1]) # <<>>)
    IN  [n \in 1..Len(kept) |-> PageText(pieces, kept[n])]

\* the units from the k-th on each appear, trimmed, in a chunk, the chunks
\* taken in order from the j-th on
RECURSIVE UnitsPlaced(_, _, _)
UnitsPlaced(units, k, j) ==
    IF k > Len(units) THEN TRUE
    ELSE \E m \in j..Len(chunks) :
            /\ Contains(chunks[m].content, StrStrip(units[k]))
            /\ UnitsPlaced(units, k + 1, m)

C2_Witness_Md  == MdSplit /\ Len(chunks) >= 3 /\ overlap > 0
NormalInput ==
    pc = "pdf_returned" => \A n \in 1..Len(PageUnits) : Len(PageUnits[n]) <= max_size

Returned == pc \in {"md_returned", "pdf_returned"}

C4_SingleTrimmed ==
    /\ (pc = "md_returned" /\ Len(Unpack(markdown)) <= max_size) =>
          Len(chunks) = 1 /\ Unpack(chunks[1]) = StrStrip(Unpack(markdown))
    /\ (pc = "pdf_returned" /\ Len(text) <= max_size) =>
          Len(chunks) = 1 /\ chunks[1].content = StrStrip(text)

(***************************************************************************)
(* The end-to-end scenario: chunk_markdown with its default parameters on  *)
(* a document of ScenarioLen characters.                                   *)
(***************************************************************************)
MAX_CHUNK_SIZE == 20000
CHUNK_OVERLAP  == 1000
ScenarioLen    == 45000

\* the offsets at which a document drawn may have a blank line
BreakOffsets == {10000, 10001, 20000, 29000, 30000}

ScenarioText(breaks, filler) ==
    SubSeq([k \in 1..ScenarioLen |->
               IF \E b \in breaks : k = b + 1 \/ k = b + 2 THEN "\n" ELSE filler],
           1, ScenarioLen)

InitScenario ==
    /\ pc = "md"
    /\ \E breaks \in SUBSET BreakOffsets, filler \in {"a", " "} :
          markdown = Pack(ScenarioText(breaks, filler))
    /\ max_size = MAX_CHUNK_SIZE /\ overlap = CHUNK_OVERLAP
    /\ start = 0 /\ chunks = <<>> /\ cuts = <<>>
    /\ IdleNorm /\ IdlePdf /\ IdleExtract /\ IdleBlog /\ IdleUi

SpecScenario == InitScenario /\ [][NextMd]_vars

HasBlankLine(runs) == Contains(Unpack(runs), W_Blank)

\* C5 as stated: the document gives exactly 3 chunks, the last no longer
\* than max_size
C5_Original_ThreeChunks ==
    pc = "md_returned" =>
        Len(chunks) = 3 /\ Len(Unpack(chunks[Len(chunks)])) <= max_size

\* C5 as amended: the document gives 3 chunks or more, exactly 3 when it
\* has no blank line, and the last is no longer than max_size
C5_ThreeChunks ==
    pc = "md_returned" =>
        /\ Len(chunks) >= 3
        /\ ~HasBlankLine(markdown) => Len(chunks) = 3
        /\ Len(Unpack(chunks[Len(chunks)])) <= max_size

\* C5's case: a document without a blank line, split
C5_Witness ==
    pc = "md_returned" /\ ~HasBlankLine(markdown) /\ Len(chunks) = 3

(***************************************************************************)
(* json.loads (pdf_processor.py lines 322, 330, 336, 345, 352), for the    *)
(* JSON texts drawn here: strings with the escapes \" \\ \/ \n \r \t,      *)
(* integers, true, false, null, arrays and objects.                        *)
(***************************************************************************)
\* the whitespace of JSON
JsonSpace == {" ", "\t", "\n", "\r"}
\* the control characters a JSON string may not hold
JsonControl == {"\t", "\n", "\r"}

W_null  == <<"n","u","l","l">>
W_true  == <<"t","r","u","e">>
W_false == <<"f","a","l","s","e">>

\* the outcome of a scan: the value v read up to position p - 1, or NoValue
Scanned(v, p) == [ok |-> TRUE, v |-> v, p |-> p]
NoValue == [ok |-> FALSE, v |-> PyNone, p |-> 0]

SkipSpace(s, p) == p + RunLen(s, p, JsonSpace)

\* the character an escape \c stands for
Unescape(c) ==
    CASE c = "n" -> "\n"
      [] c = "r" -> "\r"
      [] c = "t" -> "\t"
      [] OTHER   -> c

\* a string, from the position after its opening quote
RECURSIVE ScanString(_, _, _)
ScanString(s, p, acc) ==
    IF p > Len(s) THEN NoValue
    ELSE IF s[p] = "\"" THEN Scanned(PyStr(acc), p + 1)
    ELSE IF s[p] = "\\"
         THEN IF p + 1 <= Len(s) /\ s[p + 1] \in {"\"", "\\", "/", "n", "r", "t"}
              THEN ScanString(s, p + 2, Append(acc, Unescape(s[p + 1])))
              ELSE NoValue
    ELSE IF s[p] \in JsonControl THEN NoValue
    ELSE ScanString(s, p + 1, Append(acc, s[p]))

\* an integer: -?(0|[1-9]\d*)
ScanNumber(s, p) ==
    LET a  == IF p <= Len(s) /\ s[p] = "-" THEN p + 1 ELSE p
        ds == IF a <= Len(s) /\ s[a] = "0" THEN 1 ELSE RunLen(s, a, Digit)
        n  == ParseInt(SubSeq(s, a, a + ds - 1))
    IN  IF ds = 0 THEN NoValue
        ELSE Scanned(PyNum(IF a > p THEN 0 - n ELSE n), a + ds)

\* the word w stands at position p
Literal(s, p, w) == p + Len(w) - 1 <= Len(s) /\ SubSeq(s, p, p + Len(w) - 1) = w

RECURSIVE ScanValue(_, _)
RECURSIVE ScanItems(_, _, _)
RECURSIVE ScanMembers(_, _, _)

\* the loop of an array, a value expected at p
ScanItems(s, p, acc) ==
    LET Closed(a, v) ==
            IF a > Len(s) THEN NoValue
            ELSE IF s[a] = "]" THEN Scanned(PyList(Append(acc, v)), a + 1)
            ELSE IF s[a] = "," THEN ScanItems(s, SkipSpace(s, a + 1), Append(acc, v))
            ELSE NoValue
        Item(r) == IF r.ok THEN Closed(SkipSpace(s, r.p), r.v) ELSE NoValue
    IN  Item(ScanValue(s, p))

\* the loop of an object, the opening quote of a key expected at p
ScanMembers(s, p, acc) ==
    LET Closed(a, d) ==
            IF a > Len(s) THEN NoValue
            ELSE IF s[a] = "}" THEN Scanned(PyDict(d), a + 1)
            ELSE IF s[a] = "," THEN ScanMembers(s, SkipSpace(s, a + 1), d)
            ELSE NoValue
        Member(key, r) ==
            IF r.ok THEN Closed(SkipSpace(s, r.p), Put(acc, key, r.v)) ELSE NoValue
        Colon(key, a) ==
            IF a <= Len(s) /\ s[a] = ":"
            THEN Member(key, ScanValue(s, SkipSpace(s, a + 1)))
            ELSE NoValue
        Key(k) == IF k.ok THEN Colon(k.v.v, SkipSpace(s, k.p)) ELSE NoValue
    IN  IF p <= Len(s) /\ s[p] = "\"" THEN Key(ScanString(s, p + 1, <<>>))
        ELSE NoValue

\* an array or an object, from the position after its opening character
ScanArray(s, p) ==
    LET Opened(a) == IF a <= Len(s) /\ s[a] = "]" THEN Scanned(PyList(<<>>), a + 1)
                     ELSE ScanItems(s, a, <<>>)
    IN  Opened(SkipSpace(s, p))
ScanObject(s, p) ==
    LET Opened(a) == IF a <= Len(s) /\ s[a] = "}" THEN Scanned(PyDict(<<>>), a + 1)
                     ELSE ScanMembers(s, a, <<>>)
    IN  Opened(SkipSpace(s, p))

\* one value at position p
ScanValue(s, p) ==
    IF p > Len(s) THEN NoValue
    ELSE CASE s[p] = "\""             -> ScanString(s, p + 1, <<>>)
           [] s[p] = "{"              -> ScanObject(s, p + 1)
           [] s[p] = "["              -> ScanArray(s, p + 1)
           [] Literal(s, p, W_null)   -> Scanned(PyNone, p + 4)
           [] Literal(s, p, W_true)   -> Scanned(PyBool(TRUE), p + 4)
           [] Literal(s, p, W_false)  -> Scanned(PyBool(FALSE), p + 5)
           [] s[p] \in Digit \cup {"-"} -> ScanNumber(s, p)
           [] OTHER                   -> NoValue

\* json.loads(s): [ok, v]; not ok when JSONDecodeError is raised
json_loads(s) ==
    LET Whole(r) == IF r.ok /\ SkipSpace(s, r.p) = Len(s) + 1
                    THEN [ok |-> TRUE, v |-> r.v]
                    ELSE [ok |-> FALSE, v |-> PyNone]
    IN  Whole(ScanValue(s, SkipSpace(s, 1)))

(***************************************************************************)
(* The parsing of a response (pdf_processor.py lines 312-354)              *)
(***************************************************************************)
\* the character U+0060 of a fence marker, which a TLA+ string cannot hold
Backquote   == "U+0060"
W_Fence     == <<Backquote, Backquote, Backquote>>
W_FenceJson == W_Fence \o <<"j","s","o","n">>

\* re.sub of line 314: every fence marker followed by json and by
\* whitespace is deleted
RECURSIVE StripJsonFences(_)
StripJsonFences(s) ==
    LET Cut(k) ==
            IF k = 0 THEN s
            ELSE SubSeq(s, 1, k - 1) \o
                 StripJsonFences(DropFirst(s, k + 6 + RunLen(s, k + 7, Space)))
    IN  Cut(FindFrom(s, W_FenceJson, 1))

\* re.sub of line 315: a fence marker followed by whitespace up to the end
\* of the string is deleted
StripEndFence(s) ==
    LET hits == {k \in 1..(Len(s) - 2) :
                    /\ SubSeq(s, k, k + 2) = W_Fence
                    /\ \A j \in (k + 3)..Len(s) : s[j] \in Space}
    IN  IF hits = {} THEN s
        ELSE SubSeq(s, 1, (CHOOSE k \in hits : \A j \in hits : k <= j) - 1)

\* lines 312-315: the text that is parsed
ResponseContent(response_text) ==
    StripEndFence(StripJsonFences(StrStrip(response_text)))

\* re.search(open.*close, s, re.DOTALL).group(), for one-character open and
\* close: from the first open that has a close after it to the last close
SearchEnclosed(s, open, close) ==
    LET hits == {a \in 1..Len(s) : s[a] = open /\ \E b \in (a + 1)..Len(s) : s[b] = close}
        Span(a) == SubSeq(s, a, CHOOSE b \in a..Len(s) :
                                    s[b] = close /\ \A j \in (b + 1)..Len(s) : s[j] # close)
    IN  IF hits = {} THEN NoMatch
        ELSE Span(CHOOSE a \in hits : \A j \in hits : a <= j)

\* s[s.find(open) : s.rfind(close) + 1] under the test of lines 343 and 350
FindEnclosed(s, open, close) ==
    LET opens  == {a \in 1..Len(s) : s[a] = open}
        closes == {b \in 1..Len(s) : s[b] = close}
        Span(a, b) == IF b > a THEN SubSeq(s, a, b) ELSE NoMatch
    IN  IF opens = {} \/ closes = {} THEN NoMatch
        ELSE Span(CHOOSE a \in opens : \A j \in opens : a <= j,
                  CHOOSE b \in closes : \A j \in closes : b >= j)

\* the second try (lines 325-336): [ok, v]; v is None when nothing matches
SecondTry(content) ==
    LET Object(m) == IF m = NoMatch THEN [ok |-> TRUE, v |-> PyNone] ELSE json_loads(m)
        Array(m)  == IF m = NoMatch THEN Object(SearchEnclosed(content, "{", "}"))
                     ELSE json_loads(m)
    IN  Array(SearchEnclosed(content, "[", "]"))

\* the third try (lines 339-354)
ThirdTry(content) ==
    LET Object(m) == IF m = NoMatch THEN [ok |-> TRUE, v |-> PyNone] ELSE json_loads(m)
        Array(m)  == IF m = NoMatch THEN Object(FindEnclosed(content, "{", "}"))
                     ELSE json_loads(m)
    IN  Array(FindEnclosed(content, "[", "]"))

\* parsed_data at line 356
ParsedData(content) ==
    LET Third(r)  == IF r.ok THEN r.v ELSE PyNone
        Second(r) == IF r.ok THEN r.v ELSE Third(ThirdTry(content))
        First(r)  == IF r.ok THEN r.v ELSE Second(SecondTry(content))
    IN  First(json_loads(content))

(***************************************************************************)
(* Title recovery (pdf_processor.py lines 372-403 and 429-446)             *)
(***************************************************************************)
\* the patterns of lines 377-382; lines 433-437 hold the first three
RecoveryPatterns ==
    << [kind |-> "chapter",  tc |-> {"\n", "\r", "."}],
       [kind |-> "numbered", tc |-> {"\n", "\r"}],
       [kind |-> "anchored", tc |-> {"\n", "\r"}],
       [kind |-> "words",    tc |-> {"\n", "\r", "."}] >>

\* the loop over the patterns k..n (lines 385-392, 439-446): the title of
\* the first candidate of 5 to 60 characters, or NoMatch
RECURSIVE FallbackTitleFrom(_, _, _)
FallbackTitleFrom(preview, k, n) ==
    LET Accepted(candidate) ==
            IF Len(candidate) >= 5 /\ Len(candidate) <= 60
            THEN IF StrIsUpper(candidate) THEN StrTitle(candidate) ELSE candidate
            ELSE FallbackTitleFrom(preview, k + 1, n)
        Matched(g) ==
            IF g = NoMatch THEN FallbackTitleFrom(preview, k + 1, n)
            ELSE Accepted(StripLeadingNumber(StrStrip(g)))
    IN  IF k > n THEN NoMatch
        ELSE Matched(SearchGroup(preview, RecoveryPatterns[k].kind, 5, 50,
                                 RecoveryPatterns[k].tc, FALSE))

\* the alternatives of the pattern of line 398
KeywordStems ==
    { <<"i","n","t","e","r","v","i","e","w">>,
      <<"c","o","d","i","n","g">>,
      <<"t","e","c","h","n","i","c","a","l">>,
      <<"r","e","s","u","m","e">>,
      <<"c","a","r","e","e","r">>,
      <<"j","o","b">>,
      <<"a","l","g","o","r","i","t","h","m">>,
      <<"p","r","o","g","r","a","m","m","i","n","g">>,
      <<"s","o","f","t","w","a","r","e">>,
      <<"e","n","g","i","n","e","e","r">>,
      <<"d","e","v","e","l","o","p","e","r">>,
      <<"h","i","r","i","n","g">>,
      <<"r","e","c","r","u","i","t","e","r">> }

\* re.findall of line 398: the positions at which a keyword starts, a
\* keyword being the rest of the word
KeywordStarts(s) ==
    {i \in 1..Len(s) : /\ i = 1 \/ s[i - 1] \notin WordChar
                       /\ \E w \in KeywordStems : StartsWith(DropFirst(s, i - 1), w)}
KeywordAt(s, i) == SubSeq(s, i, i + RunLen(s, i, WordChar) - 1)

\* max(set(keywords), key=keywords.count) (line 400): max returns the first
\* of the most counted keywords in the iteration order of the set, which is
\* not determined; every keyword of the highest count is a possible outcome
MainTopics(s) ==
    LET Count(w)  == Cardinality({i \in KeywordStarts(s) : KeywordAt(s, i) = w})
        Most(ws)  == {w \in ws : \A x \in ws : Count(w) >= Count(x)}
    IN  Most({KeywordAt(s, i) : i \in KeywordStarts(s)})

W_Content == <<" ","C","o","n","t","e","n","t">>
W_ContentSection ==
    <<"C","o","n","t","e","n","t"," ","S","e","c","t","i","o","n"," ","(",
      "P","a","g","e","s"," ">>
W_Chunk == <<"C","h","u","n","k"," ">>
W_pdf_chapter == <<"p","d","f","_","c","h","a","p","t","e","r">>
W_Unknown == <<"U","n","k","n","o","w","n">>
W_Ellipsis == <<".",".",".">>

\* f"Content Section (Pages {chunk.get('page_range', 'unknown')})"
RangeLabel(chunk) == W_ContentSection \o chunk.page_range \o <<")">>

\* the titles lines 374-403 may give an item whose content preview is given
RecoveredTitles(preview, chunk) ==
    LET Topics(ws) == IF ws # {} THEN {StrTitle(w) \o W_Content : w \in ws}
                      ELSE {RangeLabel(chunk)}
        Recovered(t) == IF t # NoMatch THEN {t} ELSE Topics(MainTopics(StrLower(preview)))
    IN  Recovered(FallbackTitleFrom(preview, 1, 4))

(***************************************************************************)
(* The items of one response (lines 357-419) and the fallback item         *)
(* (lines 426-457)                                                         *)
(***************************************************************************)
\* not title or "PDF Content" in title (line 372): "recover", "keep", or
\* "raise" when the test raises TypeError
TitleTest(title) ==
    IF ~Truthy(title) THEN "recover"
    ELSE CASE title.t = "str"  ->
                IF Contains(title.v, W_PDF_Content) THEN "recover" ELSE "keep"
           [] title.t = "list" ->
                IF \E k \in 1..Len(title.v) : title.v[k] = PyStr(W_PDF_Content)
                THEN "recover" ELSE "keep"
           [] title.t = "dict" ->
                IF W_PDF_Content \in DOMAIN title.v THEN "recover" ELSE "keep"
           [] OTHER -> "raise"

\* lines 406-411
WithDefaults(item_data, chunk, filename) ==
    SetDefault(SetDefault(SetDefault(SetDefault(SetDefault(SetDefault(item_data,
        K_content_type, PyStr(W_pdf_chapter)),
        K_source_url, PyStr(filename)),
        K_author, PyStr(W_Unknown)),
        K_user_id, PyStr(<<>>)),
        K_page_range, PyStr(chunk.page_range)),
        K_chapter, PyStr(W_Chunk \o Decimal(chunk.chunk_index)))

\* the body of the loop over the items for one dict (lines 370-413): the
\* possible outcomes [raised, item]
CompletedItems(item_data, chunk, filename) ==
    LET content == Get(item_data, K_content, PyStr(<<>>))
        Raised  == {[raised |-> TRUE, item |-> item_data]}
        Tested(test) ==
            IF test = "raise" THEN Raised
            ELSE IF test = "keep"
            THEN {[raised |-> FALSE, item |-> WithDefaults(item_data, chunk, filename)]}
            ELSE IF ~IsStr(content) THEN Raised
            ELSE {[raised |-> FALSE,
                   item   |-> WithDefaults(Put(item_data, K_title, PyStr(t)),
                                           chunk, filename)] :
                     t \in RecoveredTitles(Prefix(content.v, 300), chunk)}
    IN  Tested(TitleTest(Get(item_data, K_title, PyStr(<<>>))))

\* items_to_process (lines 358-365)
ItemsToProcess(parsed_data) ==
    CASE parsed_data.t = "list" -> parsed_data.v
      [] parsed_data.t = "dict" -> <<parsed_data>>
      [] OTHER                  -> <<>>

\* the loop of lines 368-413 from item k on, acc the items appended so far:
\* the possible outcomes [raised, items]
RECURSIVE ProcessedFrom(_, _, _, _, _)
ProcessedFrom(items, k, acc, chunk, filename) ==
    IF k > Len(items) THEN {[raised |-> FALSE, items |-> acc]}
    ELSE IF items[k].t # "dict" THEN ProcessedFrom(items, k + 1, acc, chunk, filename)
    ELSE UNION {IF c.raised THEN {[raised |-> TRUE, items |-> acc]}
                ELSE ProcessedFrom(items, k + 1, Append(acc, c.item), chunk, filename) :
                  c \in CompletedItems(items[k].v, chunk, filename)}

\* the test of line 416
NoValidItems_Falsy(parsed_data) ==
    ~Truthy(parsed_data)
NoValidItems(parsed_data) ==
    \/ ~Truthy(parsed_data)
    \/ ~\E k \in 1..Len(IF parsed_data.t = "list" THEN parsed_data.v ELSE <<parsed_data>>) :
           (IF parsed_data.t = "list" THEN parsed_data.v ELSE <<parsed_data>>)[k].t = "dict"

\* lines 357-419 for a response parsed: the possible outcomes [raised, items]
ProcessedItems(parsed_data, chunk, filename) ==
    LET Checked(r) == IF r.raised \/ ~NoValidItems(parsed_data) THEN r
                      ELSE [raised |-> TRUE, items |-> r.items]
    IN  IF ~Truthy(parsed_data) THEN {[raised |-> TRUE, items |-> <<>>]}
        ELSE {Checked(r) : r \in ProcessedFrom(ItemsToProcess(parsed_data), 1, <<>>,
                                               chunk, filename)}

\* the title of the fallback item (lines 429-446)
FallbackTitle(chunk) ==
    LET Found(t) == IF t # NoMatch THEN t ELSE RangeLabel(chunk)
    IN  IF chunk.content = <<>> THEN RangeLabel(chunk)
        ELSE Found(FallbackTitleFrom(Prefix(chunk.content, 300), 1, 3))

\* the content of the fallback item (line 450)
FallbackContent_NoMark(chunk_content) ==
    IF Len(chunk_content) > 1000 THEN Prefix(chunk_content, 1000) ELSE chunk_content
FallbackContent(chunk_content) ==
    IF Len(chunk_content) > 1000 THEN Prefix(chunk_content, 1000) \o W_Ellipsis
    ELSE chunk_content

\* the fallback item (lines 448-457)
FallbackItem(chunk, filename) ==
    (K_title :> PyStr(FallbackTitle(chunk)))
    @@ (K_content :> PyStr(FallbackContent(chunk.content)))
    @@ (K_content_type :> PyStr(W_pdf_chapter))
    @@ (K_source_url :> PyStr(filename))
    @@ (K_author :> PyStr(W_Unknown))
    @@ (K_user_id :> PyStr(<<>>))
    @@ (K_page_range :> PyStr(chunk.page_range))
    @@ (K_chapter :> PyStr(W_Chunk \o Decimal(chunk.chunk_index)))

\* len(prompt) (lines 245-293): the fixed text of the prompt, the file name
\* and the page range three times each, and the content
PromptTemplateLen == 1864
PromptLen(chunk, filename) ==
    PromptTemplateLen + 3 * Len(filename) + 3 * Len(chunk.page_range) + Len(chunk.content)

(***************************************************************************)
(* extract_chapters_with_gemini (pdf_processor.py lines 233-465): one      *)
(* action for the entry, one for each pass of the loop over the chunks     *)
(* with its external call, one for the return.                             *)
(***************************************************************************)
ZeroUsage == [input_tokens |-> 0, output_tokens |-> 0, total_tokens |-> 0, cost |-> 0]

\* lines 302-309; the cost is counted in units of 1e-8, the price of a
\* token being 35 and 53 of them (calculate_cost, lines 43-46), and the
\* rounding of the floating-point sum is left out
AddUsage(usage, input_tokens, output_tokens) ==
    [input_tokens  |-> usage.input_tokens + input_tokens,
     output_tokens |-> usage.output_tokens + output_tokens,
     total_tokens  |-> usage.total_tokens + input_tokens + output_tokens,
     cost          |-> usage.cost + 35 * input_tokens + 53 * output_tokens]

\* os.getenv("GEMINI_API_KEY") or os.getenv("GOOGLE_API_KEY") (line 236)
ApiKey(env) ==
    IF Truthy(env.GEMINI_API_KEY) THEN env.GEMINI_API_KEY ELSE env.GOOGLE_API_KEY

\* lines 236-242
ExtractEnter ==
    /\ pc = "extract"
    /\ IF ~Truthy(ApiKey(environ))
       THEN /\ pc' = "extract_raised"
            /\ UNCHANGED <<extracted_items, total_token_usage>>
       ELSE /\ pc' = "extract_loop"
            /\ extracted_items' = <<>>
            /\ total_token_usage' = ZeroUsage
    /\ UNCHANGED <<environ, pdf_chunks, pdf_filename, chunk_i, slept, calls,
                   cleaned_items, normVars, chunkVars, mdVars, pdfVars, blogVars, uiVars>>

\* one pass of the loop (lines 244-458) for the outcome o of the external
\* call: parsed is parsed_data, r what lines 357-419 did, counted whether
\* lines 302-309 were reached
ChunkPass(o, parsed, r, counted) ==
    /\ extracted_items' =
          extracted_items \o r.items \o
          (IF r.raised THEN <<FallbackItem(pdf_chunks[chunk_i + 1], pdf_filename)>>
           ELSE <<>>)
    /\ total_token_usage' =
          IF counted
          THEN AddUsage(total_token_usage,
                        PromptLen(pdf_chunks[chunk_i + 1], pdf_filename) \div 4,
                        Len(o.text) \div 4)
          ELSE total_token_usage
    /\ slept' = IF r.raised THEN slept ELSE slept + 1
    /\ calls' = Append(calls, [chunk_index   |-> pdf_chunks[chunk_i + 1].chunk_index,
                               response      |-> o,
                               parsed        |-> parsed,
                               from_response |-> Len(r.items),
                               fell_back     |-> r.raised,
                               before        |-> Len(extracted_items),
                               slept         |-> slept,
                               usage         |-> total_token_usage'])
    /\ chunk_i' = chunk_i + 1
    /\ pc' = pc
    /\ UNCHANGED <<environ, pdf_chunks, pdf_filename, cleaned_items,
                   normVars, chunkVars, mdVars, pdfVars, blogVars, uiVars>>

\* lines 460-465
ExtractReturn ==
    /\ pc = "extract_loop"
    /\ chunk_i = Len(pdf_chunks)
    /\ LET Returned_(r) ==
               /\ cleaned_items' = r.value
               /\ pc' = IF r.raised THEN "extract_raised" ELSE "extract_returned"
       IN  Returned_(clean_and_deduplicate_chapters(extracted_items))
    /\ UNCHANGED <<environ, pdf_chunks, pdf_filename, chunk_i, extracted_items,
                   total_token_usage, slept, calls, normVars, chunkVars, mdVars, pdfVars, blogVars,
                   uiVars>>

(***************************************************************************)
(* The jobs drawn: the chunks, the credentials, and for each external call *)
(* its outcome, a response text written from a JSON value or not.          *)
(***************************************************************************)
MaxChunks == 2
LongLen == 1001

\* the JSON text of a value, its keys in the order of the prompt
EscapedChar(c) ==
    CASE c = "\"" -> <<"\\", "\"">>
      [] c = "\\" -> <<"\\", "\\">>
      [] c = "\n" -> <<"\\", "n">>
      [] c = "\r" -> <<"\\", "r">>
      [] c = "\t" -> <<"\\", "t">>
      [] OTHER    -> <<c>>
RECURSIVE Escaped(_)
Escaped(s) == IF s = <<>> THEN <<>> ELSE EscapedChar(Head(s)) \o Escaped(Tail(s))
KeyOrder == <<K_title, K_content, K_content_type, K_source_url, K_author,
              K_user_id, K_page_range, K_chapter>>
RECURSIVE JsonText(_)
RECURSIVE JsonItems(_, _)
RECURSIVE JsonMembers(_, _, _)
JsonItems(l, k) ==
    IF k > Len(l) THEN <<>>
    ELSE (IF k > 1 THEN <<",", " ">> ELSE <<>>) \o JsonText(l[k]) \o JsonItems(l, k + 1)
JsonMembers(d, keys, k) ==
    IF k > Len(keys) THEN <<>>
    ELSE (IF k > 1 THEN <<",", " ">> ELSE <<>>)
         \o <<"\"">> \o Escaped(keys[k]) \o <<"\"", ":", " ">> \o JsonText(d[keys[k]])
         \o JsonMembers(d, keys, k + 1)
JsonText(x) ==
    CASE x.t = "str"  -> <<"\"">> \o Escaped(x.v) \o <<"\"">>
      [] x.t = "num"  -> IF x.v < 0 THEN <<"-">> \o Decimal(0 - x.v) ELSE Decimal(x.v)
      [] x.t = "bool" -> IF x.v THEN W_true ELSE W_false
      [] x.t = "null" -> W_null
      [] x.t = "list" -> <<"[">> \o JsonItems(x.v, 1) \o <<"]">>
      [] x.t = "dict" ->
            <<"{">> \o JsonMembers(x.v, SelectSeq(KeyOrder, LAMBDA key : key \in DOMAIN x.v), 1)
            \o <<"}">>

T_Arrays  == <<"A","r","r","a","y","s"," ","[","1","]">>
T_Fences  == <<"F","e","n","c","e","s">>
T_Ann     == <<"A","n","n">>
T_One     == <<"O","n","e">>
B_Fenced  == <<"s","e","e"," ">> \o W_FenceJson \o <<" ","x">>
B_Topics  == <<"c","o","d","i","n","g"," ","i","n","t","e","r","v","i","e","w"," ","p","r","e","p">>
P_Here    == <<"H","e","r","e"," ","i","s"," ","t","h","e"," ","J","S","O","N",":"," ">>
P_Done    == <<"\n","D","o","n","e",".">>
P_Draft   == <<"R","e","s","u","l","t"," ","[","d","r","a","f","t","]",":"," ">>
P_Braces  == <<"U","s","e"," ","{","t","h","i","s","}",":"," ">>
P_Sorry   == <<"S","o","r","r","y">>
W_book_pdf == <<"b","o","o","k",".","p","d","f">>

Item(title, content) == PyDict((K_title :> title) @@ (K_content :> content))

O_Plain    == Item(PyStr(T_Intro), PyStr(B_Plain))
O_Brackets == Item(PyStr(T_Arrays), PyStr(B_Plain))
O_Fenced   == Item(PyStr(T_Fences), PyStr(B_Fenced))
O_Generic  == Item(PyStr(T_Generic), PyStr(B_Heading))
O_Topics   == PyDict(K_content :> PyStr(B_Topics))
O_Full     == PyDict(Item(PyStr(T_THE_HISTORY), PyStr(B_Plain)).v
                     @@ (K_content_type :> PyStr(T_One)) @@ (K_source_url :> PyStr(T_One))
                     @@ (K_author :> PyStr(T_Ann)) @@ (K_user_id :> PyStr(T_Ann))
                     @@ (K_page_range :> PyStr(R_3)) @@ (K_chapter :> PyStr(T_One)))
O_ListTitle   == Item(PyList(<<PyStr(T_Intro)>>), PyStr(B_Plain))
O_NumTitle    == Item(PyNum(5), PyStr(B_Plain))
O_NullContent == Item(PyStr(<<>>), PyNone)
T_Chapter1    == <<"C","h","a","p","t","e","r"," ","1">>
O_Chapter     == Item(PyStr(T_Chapter1), PyStr(B_Plain))

\* the objects that are records as the prompt asks for them
GoodObjects == {O_Plain, O_Brackets, O_Fenced, O_Full}

Response(wrap, value, response_text) ==
    [kind |-> "text", wrap |-> wrap, value |-> value, text |-> response_text]
Bare(x)          == Response("bare", x, JsonText(x))
FencedJson(x)    == Response("fence_json", x,
                             W_FenceJson \o <<"\n">> \o JsonText(x) \o <<"\n">> \o W_Fence)
Fenced(x)        == Response("fence", x,
                             W_Fence \o <<"\n">> \o JsonText(x) \o <<"\n">> \o W_Fence)
InProse(x)       == Response("prose", x, P_Here \o JsonText(x) \o P_Done)
AfterBrackets(x) == Response("prose_brackets", x, P_Draft \o JsonText(x))
AfterBraces(x)   == Response("prose_braces", x, P_Braces \o JsonText(x))
Raw(response_text) == Response("raw", PyNone, response_text)
\* the call raises; response.text is None
CallRaises == [kind |-> "raises", wrap |-> "raw", value |-> PyNone, text |-> <<>>]
NoText     == [kind |-> "no_text", wrap |-> "raw", value |-> PyNone, text |-> <<>>]

FirstOutcomes ==
    {Bare(x) : x \in {O_Plain, O_Generic, O_Topics, O_Full, O_ListTitle, O_NumTitle,
                      O_NullContent, PyDict(<<>>), PyList(<<>>), PyNum(5), PyNum(0),
                      PyStr(B_Plain), PyNone, PyBool(TRUE),
                      PyList(<<O_Plain, O_Full>>), PyList(<<PyNum(1), PyStr(B_Plain)>>),
                      PyList(<<O_Plain, PyNum(5)>>), PyList(<<O_Plain, O_NumTitle>>),
                      O_Chapter}}
    \cup {FencedJson(x) : x \in {PyList(<<O_Plain, O_Full>>), PyList(<<O_Fenced>>),
                                 PyList(<<>>), O_Plain}}
    \cup {Fenced(x) : x \in {PyList(<<O_Plain, O_Full>>), PyList(<<O_Fenced>>)}}
    \cup {InProse(x) : x \in {O_Plain, O_Brackets, O_Generic, PyList(<<O_Plain, O_Full>>)}}
    \cup {AfterBrackets(O_Plain), AfterBraces(O_Plain), Raw(P_Sorry), Raw(<<>>),
          CallRaises, NoText}
LaterOutcomes == {Bare(O_Plain), Raw(P_Sorry), CallRaises}

\* the outcomes drawn for the external call of the k-th chunk
Outcomes(k) == IF k = 1 THEN FirstOutcomes ELSE LaterOutcomes

\* lines 244-458: the external call made for the next chunk, and the pass
\* of the loop on its outcome
ExtractChunk ==
    /\ pc = "extract_loop"
    /\ chunk_i < Len(pdf_chunks)
    /\ \E o \in Outcomes(chunk_i + 1) :
          LET Parsed(parsed) ==
                  \E r \in ProcessedItems(parsed, pdf_chunks[chunk_i + 1], pdf_filename) :
                      ChunkPass(o, parsed, r, TRUE)
          IN  IF o.kind = "text" THEN Parsed(ParsedData(ResponseContent(o.text)))
              ELSE ChunkPass(o, PyNone, [raised |-> TRUE, items |-> <<>>], FALSE)

NextExtract == ExtractEnter \/ ExtractChunk \/ ExtractReturn

LongContent == SubSeq(B_Heading \o [k \in 1..LongLen |-> "a"], 1, LongLen)
ChunkAt(k, content) ==
    [content |-> content, page_range |-> IF k = 1 THEN R_1_2 ELSE Decimal(k + 1),
     chunk_index |-> k]
ChunkLists ==
    {[k \in 1..n |-> ChunkAt(k, IF k = 1 THEN first ELSE B_Plain)] :
        n \in 0..MaxChunks, first \in {B_Plain, LongContent}}
Unset == PyNone
Environs ==
    {[GEMINI_API_KEY |-> g, GOOGLE_API_KEY |-> o] :
        g \in {Unset, PyStr(<<"k">>)}, o \in {Unset, PyStr(<<"k">>)}}

InitExtract ==
    /\ pc = "extract"
    /\ environ \in Environs
    /\ pdf_chunks \in ChunkLists
    /\ pdf_filename = W_book_pdf
    /\ chunk_i = 0 /\ extracted_items = <<>> /\ total_token_usage = ZeroUsage
    /\ slept = 0 /\ calls = <<>> /\ cleaned_items = <<>>
    /\ max_size = 0 /\ overlap = 0 /\ chunks = <<>>
    /\ IdleNorm /\ IdleMd /\ IdlePdf /\ IdleBlog /\ IdleUi

SpecExtract == InitExtract /\ [][NextExtract]_vars

(***************************************************************************)
(* Properties of the parsing of a response and of the loop over the chunks *)
(***************************************************************************)
\* the records the k-th pass of the loop appended to the raw record list
SegmentRecords(k) ==
    SubSeq(extracted_items, calls[k].before + 1,
           calls[k].before + calls[k].from_response
               + (IF calls[k].fell_back THEN 1 ELSE 0))

\* a non-empty array of records as the prompt asks for them
IsGoodArray(x) ==
    x.t = "list" /\ x.v # <<>> /\ \A j \in 1..Len(x.v) : x.v[j] \in GoodObjects

\* C6: a response that is a valid JSON object with prose before and/or
\* after it is parsed to a single-element list holding that object, so that
\* the segment gives the one record parsed from it and no fallback record;
\* this also when the prose or a string of the object holds [ and ].
C6_ProseAroundObject ==
    \A k \in 1..Len(calls) :
        (/\ calls[k].response.wrap \in {"prose", "prose_brackets", "prose_braces"}
         /\ calls[k].response.value \in GoodObjects)
        => /\ ItemsToProcess(calls[k].parsed) = <<calls[k].response.value>>
           /\ calls[k].from_response = 1
           /\ ~calls[k].fell_back

\* C7: a response that is a valid JSON array between code fences is parsed
\* to exactly the elements of that array, which become the records of the
\* segment in the order of the array.
C7_FencedArray ==
    \A k \in 1..Len(calls) :
        (/\ calls[k].response.wrap \in {"fence_json", "fence"}
         /\ IsGoodArray(calls[k].response.value))
        => /\ calls[k].parsed = calls[k].response.value
           /\ calls[k].from_response = Len(calls[k].response.value.v)
           /\ ~calls[k].fell_back
           /\ \A j \in 1..Len(SegmentRecords(k)) :
                 /\ SegmentRecords(k)[j][K_title] = calls[k].response.value.v[j].v[K_title]
                 /\ SegmentRecords(k)[j][K_content] =
                        calls[k].response.value.v[j].v[K_content]

\* what was parsed holds no mapping-typed element: nothing was parsed, or a
\* scalar or null, or an empty array or object, or an array without an object
NoMapping(parsed) ==
    CASE parsed.t = "list" -> \A j \in 1..Len(parsed.v) : parsed.v[j].t # "dict"
      [] parsed.t = "dict" -> DOMAIN parsed.v = {}
      [] OTHER             -> TRUE
ParseFailed(k) == calls[k].response.kind = "text" /\ NoMapping(calls[k].parsed)

\* C8: when the three steps of the cascade fail, or what is parsed holds no
\* mapping-typed element, no record of the response is appended and the
\* segment takes the fallback path.
C8_ParseFailure ==
    \A k \in 1..Len(calls) :
        ParseFailed(k) => /\ calls[k].from_response = 0
                          /\ calls[k].fell_back
                          /\ Len(extracted_items) >= calls[k].before + 1

\* C8's cases: an array that holds no object, and a text that is no JSON
C8_Witness ==
    /\ \E k \in 1..Len(calls) :
          /\ ParseFailed(k) /\ calls[k].fell_back
          /\ calls[k].parsed.t = "list" /\ calls[k].parsed.v # <<>>
    /\ \E k \in 1..Len(calls) :
          /\ ParseFailed(k) /\ calls[k].fell_back
          /\ calls[k].response.wrap = "raw" /\ calls[k].response.text # <<>>

\* C9: on the parse failure of a segment exactly one fallback record is
\* appended for it: its content is the content of the segment, cut to its
\* first 1000 characters and followed by "..." if and only if the segment
\* is longer than 1000 characters, its content_type is "pdf_chapter", its
\* source_url the file name, its author "Unknown", its user_id "", its
\* page_range the range of the segment and its chapter "Chunk <index>".
C9_FallbackRecord ==
    \A k \in 1..Len(calls) :
        ParseFailed(k) =>
            /\ Len(SegmentRecords(k)) = 1
            /\ SegmentRecords(k)[1][K_content] =
                  PyStr(IF Len(pdf_chunks[k].content) > 1000
                        THEN SubSeq(pdf_chunks[k].content, 1, 1000) \o <<".", ".", ".">>
                        ELSE pdf_chunks[k].content)
            /\ SegmentRecords(k)[1][K_content_type] = PyStr(W_pdf_chapter)
            /\ SegmentRecords(k)[1][K_source_url] = PyStr(pdf_filename)
            /\ SegmentRecords(k)[1][K_author] = PyStr(W_Unknown)
            /\ SegmentRecords(k)[1][K_user_id] = PyStr(<<>>)
            /\ SegmentRecords(k)[1][K_page_range] = PyStr(pdf_chunks[k].page_range)
            /\ SegmentRecords(k)[1][K_chapter] =
                  PyStr(W_Chunk \o Decimal(pdf_chunks[k].chunk_index))

\* C9's cases: a segment longer than 1000 characters and one that is not,
\* each with a response that could not be parsed
C9_Witness ==
    /\ Len(calls) = 2
    /\ ParseFailed(1) /\ Len(pdf_chunks[1].content) > 1000
    /\ Len(SegmentRecords(1)[1][K_content].v) = 1003
    /\ ParseFailed(2) /\ Len(pdf_chunks[2].content) <= 1000

\* C10: the failure of a segment is isolated: the external call is made
\* once for every segment, one at a time in the order of the indexes,
\* whatever the outcome of the earlier segments, and once the loop is
\* entered the call returns normally with the records accumulated.
C10_Isolated ==
    /\ Len(calls) = chunk_i
    /\ \A k \in 1..Len(calls) : calls[k].chunk_index = pdf_chunks[k].chunk_index
    /\ pc = "extract_returned" => Len(calls) = Len(pdf_chunks)
    /\ pc = "extract_raised" => ~Truthy(ApiKey(environ))

(***************************************************************************)
(* scraper.py: get_markdown_from_jina (lines 47-56),                       *)
(* extract_blog_list_with_gemini (83-153), extract_blog_content_with_gemini*)
(* (155-201), fetch_individual_blog_content (203-215) and                  *)
(* validate_and_format_items (217-246).                                    *)
(***************************************************************************)
\* lines 50-56: http is what requests.get did, an exception raised or a
\* response; raise_for_status raises for the statuses 400 to 599
get_markdown_from_jina(http) ==
    IF http.kind = "raises" \/ (http.status >= 400 /\ http.status < 600)
    THEN <<>>
    ELSE http.text

\* len(prompt) at line 126, the markdown cut at lines 84-86
ListPromptTemplateLen == 435
ListPromptLen(markdown_len, source_url) ==
    ListPromptTemplateLen + Len(source_url)
        + (IF markdown_len > 25000 THEN 25000 + 16 ELSE markdown_len)

\* lines 137-150: [ok, v], v being blog_data; not ok when json.loads raises
BlogData(response_text) ==
    LET Loaded(content, m) == json_loads(IF m = NoMatch THEN content ELSE m)
        Parsed(content) == Loaded(content, SearchEnclosed(content, "[", "]"))
    IN  Parsed(ResponseContent(response_text))

\* the tuple extract_blog_list_with_gemini returns after the call had the
\* outcome o, token_usage being the usage of lines 126-135
ListReturned(o, token_usage) ==
    LET Result(r) == IF r.ok THEN <<r.v, token_usage>> ELSE <<PyList(<<>>), ZeroUsage>>
    IN  IF o.kind = "text" THEN Result(BlogData(o.text))
        ELSE <<PyList(<<>>), ZeroUsage>>

\* the inputs drawn for the functions of scraper.py
MaxItems == 3
W_url == <<"h","t","t","p",":","/","/","x">>
Post(title, more) == PyDict((K_title :> title) @@ more)
V_Good      == Post(PyStr(<<" ">> \o T_Intro \o <<" ">>),
                    (K_content :> PyStr(B_Plain)) @@ (K_content_type :> PyStr(T_One))
                    @@ (K_source_url :> PyStr(W_url)) @@ (K_author :> PyStr(T_Ann))
                    @@ (K_user_id :> PyStr(<<>>)))
V_TitleOnly == Post(PyStr(T_One), <<>>)
V_NoTitle   == PyDict((K_content :> PyStr(B_Plain)))
V_Blank     == Post(PyStr(<<" ", " ">>), <<>>)
V_NullTitle == Post(PyNone, <<>>)
V_NumAuthor == Post(PyStr(T_Intro), (K_author :> PyNum(5)))
RawItemPool == {V_Good, V_TitleOnly, V_NoTitle, V_Blank, V_NullTitle, V_NumAuthor,
                PyStr(T_One)}
RawItemLists == UNION {[1..n -> RawItemPool] : n \in 0..MaxItems}
L_Posts == PyList(<<V_Good, V_TitleOnly>>)
ListOutcomes ==
    {Bare(L_Posts), FencedJson(L_Posts), InProse(L_Posts), Bare(O_Plain), Bare(O_Brackets),
     Raw(P_Sorry), Raw(<<>>), CallRaises, NoText}
ContentOutcomes ==
    {Raw(B_Plain), Raw(<<" ">> \o T_Intro \o <<"\n">>), Raw(<<" ">>), CallRaises, NoText}
MarkdownChunkLists ==
    {[k \in 1..n |-> IF k = 1 THEN first ELSE B_Plain] :
        n \in 0..MaxChunks, first \in {B_Plain, B_Heading}}
HttpOutcomes ==
    {[kind |-> "raises", status |-> 0, text |-> <<>>]}
    \cup {[kind |-> "response", status |-> c, text |-> t] :
             c \in {200, 300, 404, 503}, t \in {B_Plain, <<" ", "\n">>}}
BlogItemPool ==
    {(K_source_url :> PyStr(W_url)), (K_source_url :> PyStr(<<>>)), (K_title :> PyStr(T_One))}

\* lines 113-153 for the outcome of the one external call
BlogList ==
    /\ pc = "blog_list"
    /\ IF ~Truthy(environ.GEMINI_API_KEY)
       THEN /\ returned' = <<PyList(<<>>), ZeroUsage>>
            /\ calls' = calls
       ELSE \E o \in ListOutcomes :
               LET Made(token_usage) ==
                       /\ returned' = ListReturned(o, token_usage)
                       /\ calls' = Append(calls, [chunk_index |-> 1, response |-> o,
                                                  slept |-> slept, usage |-> token_usage])
               IN  Made(IF o.kind = "text"
                        THEN AddUsage(ZeroUsage,
                                      ListPromptLen(Len(Unpack(markdown)), blog_url) \div 4,
                                      Len(o.text) \div 4)
                        ELSE ZeroUsage)
    /\ pc' = "blog_returned"
    /\ UNCHANGED <<environ, pdf_chunks, pdf_filename, chunk_i, extracted_items,
                   total_token_usage, slept, cleaned_items, blog_item, blog_url,
                   markdown_chunks, extracted_parts, raw_items, jina_response,
                   normVars, chunkVars, mdVars, pdfVars, uiVars>>

\* lines 203-213: the page is fetched and, when it has text, cut by
\* chunk_markdown, which gives the text itself when it is not longer than
\* MAX_CHUNK_SIZE (lines 59-60), the case of every page drawn here
FetchEnter ==
    /\ pc = "fetch"
    /\ LET Empty(http) == /\ returned' = <<PyStr(<<>>), ZeroUsage>>
                          /\ jina_response' = http
                          /\ pc' = "blog_returned"
                          /\ UNCHANGED <<blog_url, markdown_chunks>>
           Fetched(url, http, page) ==
               IF StrStrip(page) = <<>> THEN Empty(http)
               ELSE /\ Len(page) <= MAX_CHUNK_SIZE
                    /\ markdown_chunks' = <<page>>
                    /\ blog_url' = url
                    /\ jina_response' = http
                    /\ returned' = returned
                    /\ pc' = "blog_content"
           Asked(url) ==
               IF ~Truthy(url) THEN Empty(<<>>)
               ELSE \E http \in HttpOutcomes :
                       Fetched(url.v, http, get_markdown_from_jina(http))
       IN  Asked(Get(blog_item, K_source_url, PyStr(<<>>)))
    /\ UNCHANGED <<environ, pdf_chunks, pdf_filename, chunk_i, extracted_items,
                   total_token_usage, slept, calls, cleaned_items, blog_item,
                   extracted_parts, raw_items, normVars, chunkVars, mdVars, pdfVars, uiVars>>

\* lines 156-162
BlogEnter ==
    /\ pc = "blog_content"
    /\ IF ~Truthy(ApiKey(environ))
       THEN /\ pc' = "blog_raised"
            /\ UNCHANGED <<total_token_usage, extracted_parts>>
       ELSE /\ pc' = "blog_loop"
            /\ total_token_usage' = ZeroUsage
            /\ extracted_parts' = <<>>
    /\ UNCHANGED <<environ, pdf_chunks, pdf_filename, chunk_i, extracted_items,
                   slept, calls, cleaned_items, blog_item, blog_url, markdown_chunks,
                   raw_items, returned, jina_response,
                   normVars, chunkVars, mdVars, pdfVars, uiVars>>

\* len(prompt) at line 185
ContentPromptTemplateLen == 306

\* one pass of the loop of lines 164-198 with its external call
BlogChunk ==
    /\ pc = "blog_loop"
    /\ chunk_i < Len(markdown_chunks)
    /\ \E o \in ContentOutcomes :
          /\ IF o.kind = "text"
             THEN /\ total_token_usage' =
                        AddUsage(total_token_usage,
                                 (ContentPromptTemplateLen + Len(blog_url)
                                      + Len(markdown_chunks[chunk_i + 1])) \div 4,
                                 Len(o.text) \div 4)
                  /\ extracted_parts' = Append(extracted_parts, StrStrip(o.text))
                  /\ slept' = slept + 1
             ELSE UNCHANGED <<total_token_usage, extracted_parts, slept>>
          /\ calls' = Append(calls, [chunk_index |-> chunk_i + 1, response |-> o,
                                     slept |-> slept, usage |-> total_token_usage'])
    /\ chunk_i' = chunk_i + 1
    /\ pc' = pc
    /\ UNCHANGED <<environ, pdf_chunks, pdf_filename, extracted_items, cleaned_items,
                   blog_item, blog_url, markdown_chunks, raw_items, returned,
                   jina_response, normVars, chunkVars, mdVars, pdfVars, uiVars>>

\* "\n\n".join(parts)
RECURSIVE JoinParts(_)
JoinParts(parts) ==
    IF parts = <<>> THEN <<>>
    ELSE IF Len(parts) = 1 THEN parts[1]
    ELSE JoinParts(SubSeq(parts, 1, Len(parts) - 1)) \o W_Blank \o parts[Len(parts)]

\* lines 200-201
BlogReturn ==
    /\ pc = "blog_loop"
    /\ chunk_i = Len(markdown_chunks)
    /\ returned' = <<PyStr(JoinParts(SelectSeq(extracted_parts,
                                               LAMBDA part : StrStrip(part) # <<>>))),
                     total_token_usage>>
    /\ pc' = "blog_returned"
    /\ UNCHANGED <<environ, pdf_chunks, pdf_filename, chunk_i, extracted_items,
                   total_token_usage, slept, calls, cleaned_items, blog_item, blog_url,
                   markdown_chunks, extracted_parts, raw_items, jina_response,
                   normVars, chunkVars, mdVars, pdfVars, uiVars>>

\* the fields of a BlogItem (lines 26-33)
BlogFields == {K_title, K_content, K_content_type, K_source_url, K_author, K_user_id}

\* lines 221-244 for one item: the BlogItems appended, none when a field is
\* no str (AttributeError at .get or .strip) or the title is empty
ValidatedItems_KeepBlank(item) ==
    LET Value(k) == Get(item.v, k, PyStr(IF k = K_content_type
                                         THEN <<"b","l","o","g">> ELSE <<>>))
    IN  IF item.t # "dict" THEN <<>>
        ELSE IF \E k \in BlogFields : ~IsStr(Value(k)) THEN <<>>
        ELSE <<[k \in BlogFields |-> StrStrip(Value(k).v)]>>
ValidatedItems(item) ==
    LET Value(k) == Get(item.v, k, PyStr(IF k = K_content_type
                                         THEN <<"b","l","o","g">> ELSE <<>>))
    IN  IF item.t # "dict" THEN <<>>
        ELSE IF \E k \in BlogFields : ~IsStr(Value(k)) THEN <<>>
        ELSE IF StrStrip(Value(K_title).v) = <<>> THEN <<>>
        ELSE <<[k \in BlogFields |-> StrStrip(Value(k).v)]>>

\* lines 217-246
RECURSIVE validate_and_format_items(_)
validate_and_format_items(items) ==
    IF items = <<>> THEN <<>>
    ELSE validate_and_format_items(SubSeq(items, 1, Len(items) - 1))
         \o ValidatedItems(items[Len(items)])

Validate ==
    /\ pc = "validate"
    /\ returned' = <<validate_and_format_items(raw_items)>>
    /\ pc' = "blog_returned"
    /\ UNCHANGED <<environ, pdf_chunks, pdf_filename, chunk_i, extracted_items,
                   total_token_usage, slept, calls, cleaned_items, blog_item, blog_url,
                   markdown_chunks, extracted_parts, raw_items, jina_response,
                   normVars, chunkVars, mdVars, pdfVars, uiVars>>

NextBlog == BlogList \/ FetchEnter \/ BlogEnter \/ BlogChunk \/ BlogReturn \/ Validate

InitBlog ==
    /\ pc \in {"blog_list", "fetch", "blog_content", "validate"}
    /\ environ \in (IF pc = "validate" THEN {[GEMINI_API_KEY |-> Unset, GOOGLE_API_KEY |-> Unset]}
                    ELSE Environs)
    /\ markdown = (IF pc = "blog_list" THEN Pack(B_Plain) ELSE <<>>)
    /\ blog_url = (IF pc \in {"blog_list", "blog_content"} THEN W_url ELSE <<>>)
    /\ blog_item \in (IF pc = "fetch" THEN BlogItemPool ELSE {<<>>})
    /\ markdown_chunks \in (IF pc = "blog_content" THEN MarkdownChunkLists ELSE {<<>>})
    /\ raw_items \in (IF pc = "validate" THEN RawItemLists ELSE {<<>>})
    /\ extracted_parts = <<>> /\ returned = <<>> /\ jina_response = <<>>
    /\ chunk_i = 0 /\ total_token_usage = ZeroUsage /\ slept = 0 /\ calls = <<>>
    /\ pdf_chunks = <<>> /\ pdf_filename = <<>> /\ extracted_items = <<>>
    /\ cleaned_items = <<>>
    /\ start = 0 /\ cuts = <<>>
    /\ max_size = 0 /\ overlap = 0 /\ chunks = <<>>
    /\ IdleNorm /\ IdlePdf /\ IdleUi

SpecBlog == InitBlog /\ [][NextBlog]_vars

\* C11: in a job over several segments the fixed delay is applied between
\* every two consecutive external calls, whatever the outcome of the
\* earlier call: a sleep lies between a call and the call before it.
C11_DelayBetweenCalls ==
    \A k \in 2..Len(calls) : calls[k].slept > calls[k - 1].slept

\* C12: the usage accumulator of a job starts at zero and is incremented
\* once for every external call made: total_tokens is input_tokens plus
\* output_tokens in every state, every call made raises the counters, and
\* the usage returned at the end is the usage counted up to the last call.
C12_UsageAccounts ==
    /\ total_token_usage.total_tokens =
           total_token_usage.input_tokens + total_token_usage.output_tokens
    /\ \A k \in 1..Len(calls) :
           calls[k].usage.input_tokens >
               (IF k = 1 THEN 0 ELSE calls[k - 1].usage.input_tokens)
    /\ (pc = "blog_returned" /\ Len(returned) = 2 /\ calls # <<>>)
           => returned[2] = calls[Len(calls)].usage

\* no credential of the external service is set
NoCredential == ~Truthy(environ.GEMINI_API_KEY) /\ ~Truthy(environ.GOOGLE_API_KEY)
\* extract_blog_list_with_gemini, extract_blog_content_with_gemini were entered
ListEntered    == markdown # <<>> /\ pc # "blog_list"
ContentEntered == markdown_chunks # <<>> /\ pc # "blog_content"

\* C13: when no credential is set, a model-calling entry point fails at its
\* invocation with an error raised to its caller, before any external call
\* is made, before any segment is processed and before any record is
\* produced.
C13_NoCredentialFails ==
    NoCredential =>
        /\ calls = <<>>
        /\ extracted_parts = <<>>
        /\ (ListEntered \/ ContentEntered) => pc = "blog_raised"

\* the fetch of the page failed: no response, or a response that is not 2xx
FetchFailed ==
    /\ jina_response # <<>>
    /\ (jina_response.kind = "raises" \/ jina_response.status \notin 200..299)

\* C14: a transport failure never raises past the component: when the
\* fetch of the page fails or answers with a status that is not 2xx,
\* get_markdown_from_jina gives the empty string, so that
\* fetch_individual_blog_content returns an empty content and a zero usage
\* without a model call; and a model call that fails within a loop is
\* absorbed, the function returning normally.
C14_TransportAbsorbed ==
    /\ FetchFailed => /\ pc = "blog_returned"
                      /\ returned = <<PyStr(<<>>), ZeroUsage>>
                      /\ calls = <<>>
    /\ (\E k \in 1..Len(calls) : calls[k].response.kind = "raises") => pc # "blog_raised"

\* a record whose fields, where present, are strings and whose title is
\* present and not blank
WellFormed(item) ==
    /\ item.t = "dict"
    /\ \A k \in BlogFields \cap DOMAIN item.v : IsStr(item.v[k])
    /\ K_title \in DOMAIN item.v
    /\ StrStrip(item.v[K_title].v) # <<>>
ValidateReturned == pc = "blog_returned" /\ Len(returned) = 1

\* C15: validate_and_format_items drops a record without a title (absent,
\* blank or no string) or with a field that is no string and never aborts
\* the batch: it returns the well-formed records of its input, in the order
\* of the input and each once, their fields trimmed.
C15_ValidationDrops ==
    ValidateReturned =>
        LET Same(kept) ==
                /\ Len(returned[1]) = Len(kept)
                /\ \A j \in 1..Len(kept) :
                       \A k \in BlogFields \cap DOMAIN kept[j].v :
                           returned[1][j][k] = StrStrip(kept[j].v[k].v)
        IN  Same(SelectSeq(raw_items, WellFormed))

\* a batch of three records, the second without a usable title, gives two
C15_Witness ==
    /\ ValidateReturned
    /\ raw_items = <<V_Good, V_NullTitle, V_TitleOnly>>
    /\ Len(returned[1]) = 2
    /\ returned[1][2][K_title] = T_One

\* the key and the content of every input record of the Normalizer
KeyedContents ==
    [i \in 1..Len(chapters) |-> <<SpecKey(TitleOf(chapters[i])), chapters[i][K_content].v>>]
\* the contents of the input records of a key, in input order
ContentsOf(key) ==
    LET sel == SelectSeq(KeyedContents, LAMBDA p : p[1] = key)
    IN  [k \in 1..Len(sel) |-> sel[k][2]]
\* the input positions at which a key occurs for the first time
FirstOccurrences ==
    {i \in 1..Len(chapters) :
        \A j \in 1..(i - 1) : KeyedContents[j][1] # KeyedContents[i][1]}

\* C16: the input records whose titles normalize to the same key give one
\* record, at the place of the first occurrence of the key among the keys,
\* whose content is the contents of those records in input order, a blank
\* line between each two; no content is lost.
C16_MergedInOrder ==
    pc = "norm_returned" =>
        /\ Len(deduplicated) = Cardinality(FirstOccurrences)
        /\ \A i \in FirstOccurrences :
              LET place == Cardinality({j \in FirstOccurrences : j <= i})
              IN  /\ place <= Len(deduplicated)
                  /\ deduplicated[place][K_content].v =
                         JoinParts(ContentsOf(KeyedContents[i][1]))

\* C17: every record of the extraction stage, parsed from a response or
\* made as a fallback, and every record extract_chapters_with_gemini
\* returns, has an empty user_id, whatever the response holds.
C17_EmptyUserId ==
    /\ \A k \in 1..Len(extracted_items) : extracted_items[k][K_user_id] = PyStr(<<>>)
    /\ \A k \in 1..Len(cleaned_items) : cleaned_items[k][K_user_id] = PyStr(<<>>)

\* C18: no chunk returned by chunk_markdown or chunk_pdf_content is empty,
\* and every chunk is free of leading and trailing whitespace, on the path
\* of a text that fits and on the path of a text that is split.
C18_NonEmptyTrimmed ==
    Returned =>
        \A k \in 1..Len(chunks) :
            /\ SegmentContents[k] # <<>>
            /\ StrStrip(SegmentContents[k]) = SegmentContents[k]

\* the pages whose marker text "--- Page n ---" is in a chunk
MarkedPages(content) ==
    {n \in 1..MaxPages : Contains(content, W_PageMarker \o Decimal(n) \o <<" ">> \o W_Dashes)}
\* the label of a set of pages as the claim words it
LabelOf(marked) ==
    LET lo == CHOOSE n \in marked : \A m \in marked : n <= m
        hi == CHOOSE n \in marked : \A m \in marked : n >= m
    IN  IF marked = {} THEN <<"u","n","k","n","o","w","n">>
        ELSE IF Cardinality(marked) > 1 THEN Decimal(lo) \o <<"-">> \o Decimal(hi)
        ELSE Decimal(lo)

\* C20: the page_range of every chunk of chunk_pdf_content is "min-max" of
\* the page numbers when the chunk spans more than one page, the page
\* number when it spans one, and "unknown" when it holds no page marker,
\* the pages being those whose marker text is in the chunk.
C20_RangeLabel ==
    pc = "pdf_returned" =>
        \A k \in 1..Len(chunks) :
            chunks[k].page_range = LabelOf(MarkedPages(chunks[k].content))

\* the titles the final cleanup gives the titles of the input
CleanedInputTitles ==
    {TitleOf(CleanTitle(chapters[k])) : k \in 1..Len(chapters)}

\* C19: a title recovered from the content is accepted only if it has 5 to
\* 60 characters, in the generic-title branch of the Normalizer as at the
\* other sites: every title of the normalized list that is not the title
\* of a record of the input has 5 to 60 characters.
C19_AcceptanceBound ==
    pc = "norm_returned" =>
        \A j \in 1..Len(deduplicated) :
            TitleOf(deduplicated[j]) \notin CleanedInputTitles =>
                /\ Len(TitleOf(deduplicated[j])) >= 5
                /\ Len(TitleOf(deduplicated[j])) <= 60

\* the last page unit that a chunk holds whole: its number in PageUnits, 0
\* when the chunk holds none
LastUnitIn(content) ==
    LET held == {n \in 1..Len(PageUnits) : Contains(content, StrStrip(PageUnits[n]))}
    IN  IF held = {} THEN 0 ELSE CHOOSE n \in held : \A m \in held : n >= m

\* every chunk of chunk_markdown after the first starts overlap characters
\* before the end of the chunk before it
MdSeeded ==
    MdSplit => \A k \in 2..Len(cuts) : cuts[k][1] = cuts[k - 1][2] - overlap

\* every chunk of chunk_pdf_content after the first holds the whole last
\* page unit of the chunk before it
PdfSeeded ==
    PdfSplit =>
        \A k \in 2..Len(chunks) :
            LastUnitIn(chunks[k - 1].content) > 0 =>
                Contains(chunks[k].content,
                         StrStrip(PageUnits[LastUnitIn(chunks[k - 1].content)]))

\* C21: when the accumulator is closed, the new chunk is seeded with the
\* last overlap characters of the chunk just closed (chunk_markdown) or
\* with the whole text of the last page of the chunk just closed
\* (chunk_pdf_content), and the next unit follows.
C21_SeededWithOverlap == MdSeeded /\ PdfSeeded

\* the offsets from lo on at which a blank line lies within the window
\* [st, st + max_size) of the text
BreakPointsFrom(md, st, lo) ==
    {b \in lo..(st + max_size - 2) : md[b + 1] = "\n" /\ md[b + 2] = "\n"}

\* the cuts whose window does not reach the end of the text
InnerCuts(md) == {k \in 1..Len(cuts) : cuts[k][1] + max_size < Len(md)}

\* C22 as stated: a chunk whose window does not reach the end of the text
\* ends at the blank line of the window that is nearest to the midpoint
\* start + max_size / 2 without being before it, and at start + max_size
\* when there is no blank line at or after the midpoint
C22_Original_NearestBreak ==
    LET Ends(md) ==
            \A k \in InnerCuts(md) :
                LET at == BreakPointsFrom(md, cuts[k][1], cuts[k][1] + (max_size \div 2))
                IN  IF at = {} THEN cuts[k][2] = cuts[k][1] + max_size
                    ELSE cuts[k][2] \in at /\ \A b \in at : cuts[k][2] <= b
    IN  pc = "md_returned" => Ends(Unpack(markdown))

\* C22 as amended: a chunk whose window does not reach the end of the text
\* ends at the last blank line of the window when that blank line lies
\* after the midpoint start + max_size div 2, and at start + max_size
\* when no blank line of the window lies after the midpoint
C22_LastBreak ==
    LET Ends(md) ==
            \A k \in InnerCuts(md) :
                LET at == BreakPointsFrom(md, cuts[k][1], cuts[k][1] + (max_size \div 2) + 1)
                IN  IF at = {} THEN cuts[k][2] = cuts[k][1] + max_size
                    ELSE cuts[k][2] \in at /\ \A b \in at : cuts[k][2] >= b
    IN  pc = "md_returned" => Ends(Unpack(markdown))

\* C22's case: a window with two blank lines at or after its midpoint,
\* the chunk ended at the later one
C22_Witness ==
    LET Two(md) ==
            \E k \in InnerCuts(md) :
                LET at == BreakPointsFrom(md, cuts[k][1], cuts[k][1] + (max_size \div 2))
                IN  /\ Cardinality(at) >= 2
                    /\ cuts[k][2] \in at
                    /\ \A b \in at : cuts[k][2] >= b
    IN  pc = "md_returned" /\ Two(Unpack(markdown))

(***************************************************************************)
(* chunk_markdown with any parameters max_size >= 1, 0 <= overlap <        *)
(* max_size: the loop is followed for at most MaxIterations iterations.    *)
(***************************************************************************)
MaxIterations == 8
MdAnyParams   == {<<1, 0>>, <<3, 2>>, <<5, 2>>, <<5, 3>>, <<5, 4>>}

InitMdAny ==
    /\ pc = "md"
    /\ \E s \in MdTexts : markdown = Pack(s)
    /\ \E p \in MdAnyParams : max_size = p[1] /\ overlap = p[2]
    /\ start = 0 /\ chunks = <<>> /\ cuts = <<>>
    /\ IdleNorm /\ IdlePdf /\ IdleExtract /\ IdleBlog /\ IdleUi

MdIterateOnce == Len(chunks) < MaxIterations /\ MdIterate

NextMdAny == MdEnter \/ MdIterateOnce

SpecMdAny == InitMdAny /\ [][NextMdAny]_vars

\* C23: with max_size >= 1 and 0 <= overlap < max_size, every iteration of
\* the loop of chunk_markdown begins at a start offset greater than that
\* of the iteration before, so that the loop ends.
C23_StartAdvances ==
    \A k \in 2..Len(cuts) : cuts[k][1] > cuts[k - 1][1]

\* C24: every pass of the loop of extract_chapters_with_gemini appends
\* either one or more records of the parsed response or exactly one
\* fallback record, never both and never neither, also when an exception
\* is raised while the elements parsed are completed one by one.
C24_ParsedOrFallback ==
    \A k \in 1..Len(calls) :
        /\ Len(SegmentRecords(k)) >= 1
        /\ (calls[k].from_response >= 1) # calls[k].fell_back

\* C25: the Normalizer is idempotent: clean_and_deduplicate_chapters
\* applied to its own output returns a list equal to that output.
C25_Idempotent ==
    LET Same(again) == ~again.raised /\ again.value = deduplicated
    IN  pc = "norm_returned" => Same(clean_and_deduplicate_chapters(deduplicated))

\* C26: every record that a PDF job returns, the final title cleanup of
\* the Normalizer done, has a title that is not empty, whatever the
\* responses and the contents of the chunks.
C26_TitleNotEmpty ==
    pc = "extract_returned" =>
        \A j \in 1..Len(cleaned_items) : TitleOf(cleaned_items[j]) # <<>>

(***************************************************************************)
(* The session of the user interface (app.py): the stage, the items kept,  *)
(* and the handlers of the buttons.                                        *)
(***************************************************************************)
\* item.get('title', 'Unknown')[:40] of lines 168 and 171 raises for an
\* item that is no dict and for a title that cannot be sliced
Sliceable(item) ==
    item.t = "dict" /\ Get(item.v, K_title, PyStr(W_Unknown)).t \in {"str", "list"}

\* lines 184-185: the item with the content fetched for it
WithContent(item, content) == PyDict(Put(item.v, K_content, PyStr(content)))

\* the button of extract_content_directly (lines 116-227) pressed, the page
\* fetched being markdown_text, the list extracted raw, and contents[k] the
\* content fetched for the k-th post
StartContentExtraction(markdown_text, raw, max_posts, contents) ==
    LET posts_to_process == Prefix(raw, max_posts)
        processed_items  == [k \in 1..Len(posts_to_process) |->
                                WithContent(posts_to_process[k], contents[k])]
        fails == \/ StrStrip(markdown_text) = <<>>
                 \/ raw = <<>>
                 \/ \E k \in 1..Len(posts_to_process) : ~Sliceable(posts_to_process[k])
    IN  IF fails
        THEN UNCHANGED <<stage, blog_items, processing_complete, produced_by>>
        ELSE /\ blog_items' = validate_and_format_items(processed_items)
             /\ processing_complete' = TRUE
             /\ stage' = "results"
             /\ produced_by' = "website"

\* lines 325-335: the BlogItem made of a record of the PDF job
PdfBlogItem(item, file_name) ==
    LET Default(k) == CASE k = K_title        -> W_Unknown
                        [] k = K_content_type -> W_pdf_chapter
                        [] k = K_source_url   -> file_name
                        [] k = K_author       -> W_Unknown
                        [] OTHER              -> <<>>
    IN  [k \in BlogFields |-> Get(item, k, PyStr(Default(k))).v]

\* the button of extract_pdf_content (lines 253-350) pressed, process_pdf_file
\* returning extracted
StartPdfExtraction(extracted, file_name) ==
    IF extracted = <<>>
    THEN UNCHANGED <<stage, blog_items, processing_complete, processing_mode, produced_by>>
    ELSE /\ blog_items' = [k \in 1..Len(extracted) |-> PdfBlogItem(extracted[k], file_name)]
         /\ processing_complete' = TRUE
         /\ processing_mode' = "pdf"
         /\ stage' = "results"
         /\ produced_by' = "pdf"

\* the inputs drawn: the lists of at most MaxPosts posts, the contents
\* fetched, the number of posts asked for, the records of a PDF job
MaxPosts       == 2
UiRawLists     == UNION {[1..n -> RawItemPool] : n \in 0..MaxPosts}
FetchedContents == {<<>>, B_Plain}
PostLimits     == {1, 5}
PdfRecordPool  == {Chapter(T_Intro, B_Plain, R_3), Chapter(T_THE_HISTORY, B_Heading, R_1_2),
                   O_Full.v}
PdfRecordLists == UNION {[1..n -> PdfRecordPool] : n \in 0..MaxPosts}

\* main with stage 'input', the website tab (lines 90-227): without a
\* credential the button is not shown
WebsiteExtraction ==
    /\ pc = "ui" /\ stage = "input"
    /\ Truthy(ApiKey(environ))
    /\ \E http \in HttpOutcomes, raw \in UiRawLists, max_posts \in PostLimits,
          contents \in [1..MaxPosts -> FetchedContents] :
          StartContentExtraction(get_markdown_from_jina(http), raw, max_posts, contents)
    /\ UNCHANGED <<pc, processing_mode, normVars, chunkVars, mdVars, pdfVars, extractVars,
                   blogVars>>

\* main with stage 'input', the PDF tab (lines 232-355)
PdfExtraction ==
    /\ pc = "ui" /\ stage = "input"
    /\ Truthy(ApiKey(environ))
    /\ \E extracted \in PdfRecordLists : StartPdfExtraction(extracted, W_book_pdf)
    /\ UNCHANGED <<pc, normVars, chunkVars, mdVars, pdfVars, extractVars, blogVars>>

\* the Back button of display_final_results (lines 361-364)
Back ==
    /\ pc = "ui" /\ stage = "results"
    /\ stage' = "input"
    /\ processing_complete' = FALSE
    /\ UNCHANGED <<pc, blog_items, processing_mode, produced_by, normVars, chunkVars, mdVars,
                   pdfVars, extractVars, blogVars>>

\* the button at the bottom of display_final_results (lines 478-481): every
\* key of the session is deleted, and the rerun gives each its initial
\* value (initialize_session_state, lines 80-88)
StartNew ==
    /\ pc = "ui" /\ stage = "results"
    /\ stage' = "input"
    /\ blog_items' = <<>>
    /\ processing_complete' = FALSE
    /\ processing_mode' = "website"
    /\ produced_by' = "none"
    /\ UNCHANGED <<pc, normVars, chunkVars, mdVars, pdfVars, extractVars, blogVars>>

NextUi == WebsiteExtraction \/ PdfExtraction \/ Back \/ StartNew

\* a new session (initialize_session_state, lines 80-88)
InitUi ==
    /\ pc = "ui"
    /\ stage = "input" /\ blog_items = <<>> /\ processing_complete = FALSE
    /\ processing_mode = "website" /\ produced_by = "none"
    /\ environ \in Environs
    /\ pdf_chunks = <<>> /\ pdf_filename = <<>> /\ chunk_i = 0
    /\ extracted_items = <<>> /\ total_token_usage = <<>> /\ slept = 0
    /\ calls = <<>> /\ cleaned_items = <<>>
    /\ max_size = 0 /\ overlap = 0 /\ chunks = <<>>
    /\ IdleNorm /\ IdleMd /\ IdlePdf /\ IdleBlog

SpecUi == InitUi /\ [][NextUi]_vars

\* C27: after any sequence of actions of the user, whenever the session is
\* in stage 'results' processing_complete is true and processing_mode
\* names the kind of job, 'website' or 'pdf', that produced the blog_items
\* of the session.
C27_ModeNamesJob ==
    stage = "results" => processing_complete /\ processing_mode = produced_by

====
